---- MODULE Spec2Model ----
(***************************************************************************)
(* Auths: the WebDAV sync resolver (alarm-triggered in background.ts,      *)
(* startup sync in popup/index.tsx), its download merge, its remote        *)
(* listing scan, and the sync logger.                                      *)
(*                                                                         *)
(* Conventions.  An entry is [hash, secret]; hash 0 stands for a missing   *)
(* (falsy) hash, positive integers stand for the opaque id strings.  A JS  *)
(* number is [nan, v] so that comparisons with NaN behave as in JS.  An    *)
(* href is a sequence of tokens ("/" is a token of its own).               *)
(***************************************************************************)
EXTENDS Integers, Sequences, FiniteSets, TLC

VARIABLES
    entries,              \* chrome.storage.local 'entries'
    entriesLastModified,  \* chrome.storage.local 'entriesLastModified' (0: absent)
    lastSyncedTimestamp,  \* chrome.storage.local 'lastSyncedTimestamp' (0: absent)
    webdavConfig,         \* chrome.storage.local 'webdavConfig'
    webdavSyncLogs,       \* chrome.storage.local 'webdavSyncLogs'
    clock,                \* Date.now()
    hashSeed,             \* number of ids generateHash has produced
    inv,                  \* per handler: position and locals of its invocation
    runs,                 \* number of invocations started
    pure                  \* inputs and outputs of the function-level specifications

vars == <<entries, entriesLastModified, lastSyncedTimestamp, webdavConfig,
          webdavSyncLogs, clock, hashSeed, inv, runs, pure>>

(***************************************************************************)
(* Bounds of the model.                                                    *)
(***************************************************************************)
MaxLocal == 2
MaxPayload == 2
MaxListing == 2
MaxAppends == 102
MaxClock == 3
MaxRuns == 1
MaxGenerated == 1
MaxAdds == 3
MaxCalls == 2

(***************************************************************************)
(* Program constants.                                                      *)
(***************************************************************************)
MAX_LOG_ENTRIES == 100

(***************************************************************************)
(* Value domains.                                                          *)
(***************************************************************************)
NoHash == 0
Hashes == {1, 2}
Secrets == {"A", "B"}
EntrySet == [hash : Hashes \cup {NoHash}, secret : Secrets]

RECURSIVE SeqsUpTo(_, _)
SeqsUpTo(S, n) ==
    IF n = 0 THEN {<<>>}
    ELSE LET shorter == SeqsUpTo(S, n - 1)
         IN shorter \cup {Append(s, x) : s \in {t \in shorter : Len(t) = n - 1}, x \in S}

Min(a, b) == IF a < b THEN a ELSE b
Max(a, b) == IF a > b THEN a ELSE b

(***************************************************************************)
(* JS numbers: NaN compares false with everything; `x || 0` maps NaN and 0 *)
(* to 0.                                                                   *)
(***************************************************************************)
NaN == [nan |-> TRUE, v |-> 0]
Num(n) == [nan |-> FALSE, v |-> n]
JsGt(a, b) == ~a.nan /\ ~b.nan /\ a.v > b.v
JsOr0(a) == IF a.nan THEN 0 ELSE a.v

(***************************************************************************)
(* generateHash: Date.now().toString(36) + Math.random()...: an id that no *)
(* entry and no payload carries; the n-th generated id is distinct from    *)
(* the others.                                                             *)
(***************************************************************************)
generateHash(seed) == Cardinality(Hashes) + seed + 1

(***************************************************************************)
(* The download merge of the resolver (same code in both handlers).        *)
(***************************************************************************)
HashesOf(list) == {list[i].hash : i \in DOMAIN list} \ {NoHash}

RECURSIVE MergeLoopDropsAdd(_, _, _, _, _)
MergeLoopDropsAdd(accounts, i, merged, hashes, seed) ==
    IF i > Len(accounts) THEN [merged |-> merged, seed |-> seed]
    ELSE LET acc == accounts[i] IN
         IF acc.hash = NoHash \/ acc.hash \notin hashes
         THEN LET h == IF acc.hash = NoHash THEN generateHash(seed) ELSE acc.hash
                  s == IF acc.hash = NoHash THEN seed + 1 ELSE seed
              IN MergeLoopDropsAdd(accounts, i + 1,
                                   Append(merged, [acc EXCEPT !.hash = h]), hashes, s)
         ELSE MergeLoopDropsAdd(accounts, i + 1, merged, hashes, seed)

RECURSIVE MergeLoop(_, _, _, _, _)
MergeLoop(accounts, i, merged, hashes, seed) ==
    IF i > Len(accounts) THEN [merged |-> merged, seed |-> seed]
    ELSE LET acc == accounts[i] IN
         IF acc.hash = NoHash \/ acc.hash \notin hashes
         THEN LET h == IF acc.hash = NoHash THEN generateHash(seed) ELSE acc.hash
                  s == IF acc.hash = NoHash THEN seed + 1 ELSE seed
              IN MergeLoop(accounts, i + 1,
                           Append(merged, [acc EXCEPT !.hash = h]), hashes \cup {h}, s)
         ELSE MergeLoop(accounts, i + 1, merged, hashes, seed)

DownloadMergeForgetsLocal(localEntries, accounts, seed) ==
    MergeLoop(accounts, 1, localEntries, {}, seed)

DownloadMerge(localEntries, accounts, seed) ==
    MergeLoop(accounts, 1, localEntries, HashesOf(localEntries), seed)

(***************************************************************************)
(* The merge of ImportExport.handleImport and WebDAV.handleRestore.        *)
(***************************************************************************)
RECURSIVE ImportLoop(_, _, _)
ImportLoop(accounts, i, mergedAccounts) ==
    IF i > Len(accounts) THEN mergedAccounts
    ELSE LET account == accounts[i]
             exists == \E k \in DOMAIN mergedAccounts :
                           mergedAccounts[k].hash = account.hash
         IN ImportLoop(accounts, i + 1,
                       IF exists THEN mergedAccounts
                       ELSE Append(mergedAccounts, account))

ImportMerge(existingAccounts, accounts) == ImportLoop(accounts, 1, existingAccounts)

(***************************************************************************)
(* The remote listing: the PROPFIND multistatus as a sequence of           *)
(* [href, lastMod].  lastMod is the text of getlastmodified: absent        *)
(* ("none"), not a date ("bad"), or a date with its epoch milliseconds.    *)
(***************************************************************************)
BackupHref(d) == <<"/", "dav", "/", "auths-backup", d, ".json">>
Hrefs == {BackupHref("-d1"), BackupHref("%20"), <<"/", "dav", "/", "notes", ".txt">>}
LastMods ==
    {[txt |-> "none", ms |-> 0], [txt |-> "bad", ms |-> 0]}
        \cup {[txt |-> "date", ms |-> t] : t \in 1..MaxClock}
Resources == [href : Hrefs, lastMod : LastMods]

Includes(href, tok) == \E i \in DOMAIN href : href[i] = tok
EndsWith(href, tok) == Len(href) > 0 /\ href[Len(href)] = tok

\* href.split('/').pop()
LastSegment(href) ==
    LET slashes == {i \in DOMAIN href : href[i] = "/"}
        from == IF slashes = {} THEN 1
                ELSE (CHOOSE i \in slashes : \A j \in slashes : j <= i) + 1
    IN SubSeq(href, from, Len(href))

decodeURIComponent(name) ==
    [i \in DOMAIN name |-> IF name[i] = "%20" THEN " "
                           ELSE IF name[i] = "%3A" THEN ":" ELSE name[i]]

\* href.includes('auths-backup') && href.endsWith('.json')
IsBackupHref(href) == Includes(href, "auths-backup") /\ EndsWith(href, ".json")

\* new Date(lastMod).getTime()
DateGetTime(lastMod) == IF lastMod.txt = "bad" THEN NaN ELSE Num(lastMod.ms)

\* lastMod ? new Date(lastMod).getTime() : 0
ParseTs(lastMod) == IF lastMod.txt = "none" THEN Num(0) ELSE DateGetTime(lastMod)

\* background.ts: the scan keeps remoteTimestamp / remoteFilename.
RECURSIVE AlarmScan(_, _, _)
AlarmScan(responses, i, acc) ==
    IF i > Len(responses) THEN acc
    ELSE LET href == responses[i].href
             ts == ParseTs(responses[i].lastMod)
         IN IF IsBackupHref(href) /\ JsGt(ts, acc.remoteTimestamp)
            THEN AlarmScan(responses, i + 1,
                           [remoteTimestamp |-> ts,
                            remoteFilename |-> decodeURIComponent(LastSegment(href))])
            ELSE AlarmScan(responses, i + 1, acc)

AlarmSelect(responses) ==
    AlarmScan(responses, 1, [remoteTimestamp |-> Num(0), remoteFilename |-> <<>>])

\* popup/index.tsx: the scan keeps latestRemote (null: found = FALSE).
NoLatestRemote == [found |-> FALSE, name |-> <<>>, timestamp |-> Num(0)]

RECURSIVE StartupScan(_, _, _)
StartupScan(responses, i, latestRemote) ==
    IF i > Len(responses) THEN latestRemote
    ELSE LET href == responses[i].href
             ts == ParseTs(responses[i].lastMod)
         IN IF IsBackupHref(href)
               /\ (~latestRemote.found \/ JsGt(ts, latestRemote.timestamp))
            THEN StartupScan(responses, i + 1,
                             [found |-> TRUE,
                              name |-> decodeURIComponent(LastSegment(href)),
                              timestamp |-> ts])
            ELSE StartupScan(responses, i + 1, latestRemote)

StartupSelect(responses) == StartupScan(responses, 1, NoLatestRemote)

(***************************************************************************)
(* The sync log: push, then shift while longer than MAX_LOG_ENTRIES.       *)
(***************************************************************************)
LogEntry(now, level, operation, message) ==
    [timestamp |-> now, level |-> level, operation |-> operation, message |-> message]

RECURSIVE ShiftWhileOver(_)
ShiftWhileOver(logs) ==
    IF Len(logs) > MAX_LOG_ENTRIES THEN ShiftWhileOver(Tail(logs)) ELSE logs

\* sync-logger.ts addSyncLog: logs.push(entry); while (...) logs.shift()
PushSyncLogPops(logs, entry) ==
    LET pushed == Append(logs, entry)
    IN IF Len(pushed) > MAX_LOG_ENTRIES THEN SubSeq(pushed, 1, MAX_LOG_ENTRIES)
       ELSE pushed

PushSyncLog(logs, entry) == ShiftWhileOver(Append(logs, entry))

\* background.ts addLog and the catch block: the same push and shift.
PushLog(logs, log) == ShiftWhileOver(Append(logs, log))

(***************************************************************************)
(* Storage as a fresh profile has it, and the handlers at rest.            *)
(***************************************************************************)
Handlers == {"alarm", "startup"}

\* webdavConfig: which fields are set ('' and undefined are both falsy).
NoConfig ==
    [serverUrl |-> FALSE, username |-> FALSE, password |-> FALSE, syncOnStartup |-> FALSE]
Configs ==
    {[serverUrl |-> TRUE, username |-> TRUE, password |-> TRUE, syncOnStartup |-> TRUE],
     [serverUrl |-> TRUE, username |-> TRUE, password |-> TRUE, syncOnStartup |-> FALSE],
     [serverUrl |-> TRUE, username |-> TRUE, password |-> FALSE, syncOnStartup |-> TRUE]}

\* config.serverUrl && config.username && config.password
Complete(config) == config.serverUrl /\ config.username /\ config.password

\* The three persisted keys an invocation may write.
Store ==
    [entries |-> entries, entriesLastModified |-> entriesLastModified,
     lastSyncedTimestamp |-> lastSyncedTimestamp]

IdleInv ==
    [pc |-> "idle", config |-> NoConfig,
     entries |-> <<>>, localTimestamp |-> 0,
     remoteTimestamp |-> Num(0), remoteFilename |-> <<>>,
     action |-> "none", merged |-> <<>>, sent |-> <<>>,
     started |-> 0,
     pre |-> [entries |-> <<>>, entriesLastModified |-> 0, lastSyncedTimestamp |-> 0],
     nlogs |-> 0,
     failure |-> "none", body |-> "none", decided |-> FALSE,
     reads |-> 0, writes |-> 0]

NoPure == [op |-> "none"]

AtRest ==
    /\ entries = <<>>
    /\ entriesLastModified = 0
    /\ lastSyncedTimestamp = 0
    /\ webdavSyncLogs = <<>>
    /\ clock = 1
    /\ hashSeed = 0
    /\ inv = [h \in Handlers |-> IdleInv]
    /\ runs = 0

(***************************************************************************)
(* SpecMerge: the two merges applied to bounded local lists and payloads,  *)
(* then applied once more to the same payload.                             *)
(***************************************************************************)
InitMerge ==
    /\ AtRest
    /\ webdavConfig = NoConfig
    /\ pure \in [op : {"input"}, via : {"none"},
                 local : SeqsUpTo(EntrySet, MaxLocal),
                 remote : SeqsUpTo(EntrySet, MaxPayload),
                 out : {<<>>}, seed : {0}, out2 : {<<>>}]

MergeDownload ==
    /\ pure.op = "input"
    /\ LET m == DownloadMerge(pure.local, pure.remote, hashSeed)
       IN /\ pure' = [pure EXCEPT !.op = "merged", !.via = "download",
                                  !.out = m.merged, !.seed = m.seed]
          /\ hashSeed' = m.seed
    /\ UNCHANGED <<entries, entriesLastModified, lastSyncedTimestamp, webdavConfig,
                   webdavSyncLogs, clock, inv, runs>>

RemergeDownload ==
    /\ pure.op = "merged"
    /\ pure.via = "download"
    /\ LET m == DownloadMerge(pure.out, pure.remote, hashSeed)
       IN /\ pure' = [pure EXCEPT !.op = "remerged", !.out2 = m.merged]
          /\ hashSeed' = m.seed
    /\ UNCHANGED <<entries, entriesLastModified, lastSyncedTimestamp, webdavConfig,
                   webdavSyncLogs, clock, inv, runs>>

MergeImport ==
    /\ pure.op = "input"
    /\ pure' = [pure EXCEPT !.op = "merged", !.via = "import",
                            !.out = ImportMerge(pure.local, pure.remote)]
    /\ UNCHANGED <<entries, entriesLastModified, lastSyncedTimestamp, webdavConfig,
                   webdavSyncLogs, clock, hashSeed, inv, runs>>

RemergeImport ==
    /\ pure.op = "merged"
    /\ pure.via = "import"
    /\ pure' = [pure EXCEPT !.op = "remerged",
                            !.out2 = ImportMerge(pure.out, pure.remote)]
    /\ UNCHANGED <<entries, entriesLastModified, lastSyncedTimestamp, webdavConfig,
                   webdavSyncLogs, clock, hashSeed, inv, runs>>

NextMerge == MergeDownload \/ RemergeDownload \/ MergeImport \/ RemergeImport

SpecMerge == InitMerge /\ [][NextMerge]_vars

(***************************************************************************)
(* C3, C4: the download merge.                                             *)
(***************************************************************************)
\* The remote entries a merge into `A` appends: an entry without id, or one
\* whose id no local entry and no earlier remote entry carries.
Appended(A, B) ==
    {i \in DOMAIN B :
        \/ B[i].hash = NoHash
        \/ /\ B[i].hash \notin HashesOf(A)
           /\ \A j \in 1..(i - 1) : B[j].hash # B[i].hash}

MergeShape(A, B, M) ==
    LET kept == Appended(A, B)
        pos(i) == Len(A) + Cardinality({j \in kept : j <= i})
    IN /\ Len(M) = Len(A) + Cardinality(kept)
       /\ \A k \in DOMAIN A : M[k] = A[k]
       /\ \A i \in kept :
            /\ M[pos(i)].secret = B[i].secret
            /\ B[i].hash # NoHash => M[pos(i)].hash = B[i].hash
            /\ B[i].hash = NoHash =>
                 /\ M[pos(i)].hash # NoHash
                 /\ M[pos(i)].hash \notin HashesOf(A) \cup HashesOf(B)
                 /\ \A j \in kept : j # i => M[pos(j)].hash # M[pos(i)].hash

\* C3: a Download merge yields the local entries, unchanged and in order,
\* followed by each remote entry whose id no local entry and no earlier
\* appended remote entry shares; an id-less remote entry is appended under a
\* fresh id.
C3_MergeShape ==
    (pure.op \in {"merged", "remerged"} /\ pure.via = "download")
        => MergeShape(pure.local, pure.remote, pure.out)

C3_Witness ==
    /\ pure.op = "merged"
    /\ pure.via = "download"
    /\ Len(pure.local) = 2
    /\ pure.local[1] # pure.local[2]
    /\ \E i, j \in DOMAIN pure.remote :
          /\ pure.remote[i].hash = NoHash
          /\ pure.remote[j].hash \in HashesOf(pure.local)
    /\ Len(pure.out) = 3

\* C4 as stated: merging the same payload again changes nothing, for every
\* payload, id-less entries included.
C4_Idempotent ==
    pure.op = "remerged" => pure.out2 = pure.out

AllHaveId(B) == \A i \in DOMAIN B : B[i].hash # NoHash

\* C4 amended: merging the same payload again changes nothing when every
\* entry of the payload has an id (download merge and import merge alike).
C4_IdempotentWithIds ==
    (pure.op = "remerged" /\ AllHaveId(pure.remote)) => pure.out2 = pure.out

C4_Witness ==
    /\ pure.op = "remerged"
    /\ pure.via = "download"
    /\ AllHaveId(pure.remote)
    /\ Len(pure.out) > Len(pure.local)
    /\ pure.out2 = pure.out

(***************************************************************************)
(* SpecList: both listing scans applied to bounded PROPFIND listings.      *)
(***************************************************************************)
InitList ==
    /\ AtRest
    /\ webdavConfig = NoConfig
    /\ pure \in [op : {"listing"}, via : {"none"},
                 listing : SeqsUpTo(Resources, MaxListing),
                 found : {FALSE}, name : {<<>>}, timestamp : {Num(0)}]

ScanAlarm ==
    /\ pure.op = "listing"
    /\ LET r == AlarmSelect(pure.listing)
       IN pure' = [pure EXCEPT !.op = "scanned", !.via = "alarm",
                               !.found = (r.remoteFilename # <<>>),
                               !.name = r.remoteFilename,
                               !.timestamp = r.remoteTimestamp]
    /\ UNCHANGED <<entries, entriesLastModified, lastSyncedTimestamp, webdavConfig,
                   webdavSyncLogs, clock, hashSeed, inv, runs>>

ScanStartup ==
    /\ pure.op = "listing"
    /\ LET r == StartupSelect(pure.listing)
       IN pure' = [pure EXCEPT !.op = "scanned", !.via = "startup",
                               !.found = r.found, !.name = r.name,
                               !.timestamp = r.timestamp]
    /\ UNCHANGED <<entries, entriesLastModified, lastSyncedTimestamp, webdavConfig,
                   webdavSyncLogs, clock, hashSeed, inv, runs>>

NextList == ScanAlarm \/ ScanStartup

SpecList == InitList /\ [][NextList]_vars

\* The backup filename pattern: prefix, date stamp, ".json".
IsBackupName(name) ==
    Len(name) = 3 /\ name[1] = "auths-backup" /\ name[3] = ".json"

\* A resource's modification time, a missing or unparsable one counting as 0.
ModTime(res) == IF res.lastMod.txt = "date" THEN res.lastMod.ms ELSE 0

\* C9: the selected file is a matching resource whose modification time is
\* at least that of every matching resource, remoteTimestamp is that time,
\* and nothing is selected with remoteTimestamp 0 exactly when no resource
\* matches.
C9_SelectsGreatest ==
    pure.op = "scanned" =>
        LET L == pure.listing
            matching == {i \in DOMAIN L : IsBackupName(LastSegment(L[i].href))}
        IN /\ pure.found =>
                \E i \in matching :
                    /\ pure.name = decodeURIComponent(LastSegment(L[i].href))
                    /\ pure.timestamp = Num(ModTime(L[i]))
                    /\ \A j \in matching : ModTime(L[i]) >= ModTime(L[j])
           /\ (~pure.found /\ pure.timestamp = Num(0)) <=> (matching = {})

(***************************************************************************)
(* SpecLog: sequential appends through both helpers, and clears.  Each     *)
(* call carries its own message (the number of the call).                  *)
(***************************************************************************)
InitLog ==
    /\ AtRest
    /\ webdavConfig = NoConfig
    /\ pure = [op |-> "log", appended |-> <<>>, calls |-> 0]

addSyncLog ==
    /\ pure.op = "log"
    /\ pure.calls < MaxAppends
    /\ LET entry == LogEntry(clock, "INFO", "AUTO_BACKUP_TRIGGER", pure.calls + 1)
       IN /\ webdavSyncLogs' = PushSyncLog(webdavSyncLogs, entry)
          /\ pure' = [pure EXCEPT !.appended = Append(@, entry), !.calls = @ + 1]
    /\ UNCHANGED <<entries, entriesLastModified, lastSyncedTimestamp, webdavConfig,
                   clock, hashSeed, inv, runs>>

addLog ==
    /\ pure.op = "log"
    /\ pure.calls < MaxAppends
    /\ LET log == LogEntry(clock, "INFO", "AUTO_BACKUP_TRIGGER", pure.calls + 1)
       IN /\ webdavSyncLogs' = PushLog(webdavSyncLogs, log)
          /\ pure' = [pure EXCEPT !.appended = Append(@, log), !.calls = @ + 1]
    /\ UNCHANGED <<entries, entriesLastModified, lastSyncedTimestamp, webdavConfig,
                   clock, hashSeed, inv, runs>>

clearSyncLogs ==
    /\ pure.op = "log"
    /\ webdavSyncLogs' = <<>>
    /\ pure' = [pure EXCEPT !.appended = <<>>]
    /\ UNCHANGED <<entries, entriesLastModified, lastSyncedTimestamp, webdavConfig,
                   clock, hashSeed, inv, runs>>

NextLog == addSyncLog \/ addLog \/ clearSyncLogs

SpecLog == InitLog /\ [][NextLog]_vars

\* C7: the stored log holds the min(n, 100) most recent of the n entries
\* appended since the last clear, in append order.
C7_LogBound ==
    pure.op = "log" =>
        LET n == Len(pure.appended)
            k == Min(n, 100)
        IN /\ Len(webdavSyncLogs) = k
           /\ \A i \in 1..k : webdavSyncLogs[i] = pure.appended[n - k + i]

C7_Witness ==
    /\ pure.op = "log"
    /\ Len(pure.appended) > 100
    /\ Len(webdavSyncLogs) = 100
    /\ webdavSyncLogs[1].message = pure.appended[3].message

(***************************************************************************)
(* The resolver.  Each action is one stretch of a handler between two      *)
(* awaits that another task can interleave with; the answers of the        *)
(* WebDAV server are inputs.                                               *)
(***************************************************************************)
\* The listings the server answers with here: every listing of at most one
\* resource, and two backups of which the first has an unparsable date.
Listings ==
    {<<>>} \cup {<<r>> : r \in Resources}
        \cup {<<[href |-> BackupHref("-d1"), lastMod |-> [txt |-> "bad", ms |-> 0]],
                [href |-> BackupHref("%20"), lastMod |-> [txt |-> "date", ms |-> t]]>> :
                 t \in 1..MaxClock}

PropfindResponses ==
    {[kind |-> "throw", listing |-> <<>>], [kind |-> "status", listing |-> <<>>]}
        \cup {[kind |-> "ok", listing |-> l] : l \in Listings}

\* What a GET answers: a rejected fetch, a non-2xx status, or a body: not
\* JSON, JSON without an accounts array, an encrypted envelope, or a
\* plaintext envelope.
BodyAccounts ==
    {<<>>,
     <<[hash |-> 1, secret |-> "B"]>>,
     <<[hash |-> NoHash, secret |-> "B"]>>,
     <<[hash |-> generateHash(0), secret |-> "B"], [hash |-> 2, secret |-> "A"]>>}
GetResponses ==
    {[kind |-> k, accounts |-> <<>>] :
        k \in {"throw", "status", "unparsable", "noaccounts", "encrypted"}}
        \cup {[kind |-> "plain", accounts |-> a] : a \in BodyAccounts}

PutResponses == {[kind |-> "throw", status |-> 0]}
                    \cup {[kind |-> "response", status |-> st] : st \in {200, 201, 204, 403}}

\* response.ok
ResponseOk(status) == status \in 200..299

\* response.ok || response.status === 201 || response.status === 204
PutSucceeded(status) == ResponseOk(status) \/ status = 201 \/ status = 204

\* The failure a GET answer amounts to ("none": a well-formed envelope).
GetFailure(kind) ==
    CASE kind = "throw" -> "get-throw"
      [] kind = "status" -> "get-status"
      [] kind = "unparsable" -> "get-unparsable"
      [] kind = "noaccounts" -> "get-shape"
      [] OTHER -> "none"

IdLess(accounts) == Cardinality({i \in DOMAIN accounts : accounts[i].hash = NoHash})

Request(method, file, accounts) ==
    [method |-> method, file |-> file, encrypted |-> FALSE, accounts |-> accounts]

\* The file name of an upload: auths-backup-<today>.json
UploadName == <<"auths-backup", "-today", ".json">>

\* background.ts: if (remote > local && remoteFilename) .. else if (local > remote) .. else
AlarmDecisionTies(localTimestamp, remoteTimestamp, remoteFilename) ==
    IF ~JsGt(Num(localTimestamp), remoteTimestamp) /\ remoteFilename # <<>>
    THEN "Download"
    ELSE IF JsGt(Num(localTimestamp), remoteTimestamp) THEN "Upload"
    ELSE "NoOp"

AlarmDecision(localTimestamp, remoteTimestamp, remoteFilename) ==
    IF JsGt(remoteTimestamp, Num(localTimestamp)) /\ remoteFilename # <<>>
    THEN "Download"
    ELSE IF JsGt(Num(localTimestamp), remoteTimestamp) THEN "Upload"
    ELSE "NoOp"

\* popup/index.tsx: if (latestRemote && latestRemote.timestamp > local) ..
\* else if (local > (latestRemote?.timestamp || 0) && localEntries.length > 0) .. else
StartupDecision(localTimestamp, latestRemote, localEntries) ==
    IF latestRemote.found /\ JsGt(latestRemote.timestamp, Num(localTimestamp))
    THEN "Download"
    ELSE IF localTimestamp > JsOr0(latestRemote.timestamp) /\ Len(localEntries) > 0
    THEN "Upload"
    ELSE "NoOp"

\* chrome.storage.local.set({ entries: merged, entriesLastModified: Date.now(),
\*                            lastSyncedTimestamp: Date.now() })
DownloadSetEntriesOnly(store, merged, t1, t2) ==
    [store EXCEPT !.entries = merged]

DownloadSet(store, merged, t1, t2) ==
    [store EXCEPT !.entries = merged, !.entriesLastModified = t1, !.lastSyncedTimestamp = t2]

Others(h) == Handlers \ {h}
AllIdle == \A h \in Handlers : inv[h].pc = "idle"

\* The other writers act while no invocation is in flight and another
\* invocation can still follow.
Between == AllIdle /\ runs < MaxRuns

Begin(config, next) ==
    [IdleInv EXCEPT !.pc = next, !.config = config, !.started = clock,
                    !.pre = Store, !.nlogs = Len(webdavSyncLogs)]

(***************************************************************************)
(* background.ts: chrome.alarms.onAlarm, alarm 'autoBackup'.               *)
(***************************************************************************)
\* The alarm fires; webdavConfig is read.
onAlarm ==
    /\ inv["alarm"].pc = "idle"
    /\ runs < MaxRuns
    /\ runs' = runs + 1
    /\ inv' = [inv EXCEPT !["alarm"] =
                  Begin(webdavConfig,
                        IF Complete(webdavConfig) THEN "snapshot" ELSE "done")]
    /\ UNCHANGED <<entries, entriesLastModified, lastSyncedTimestamp, webdavConfig,
                   webdavSyncLogs, clock, hashSeed, pure>>

\* get(['entries', 'entriesLastModified']); return when there are no entries.
onAlarmGetEntries ==
    /\ inv["alarm"].pc = "snapshot"
    /\ inv' = [inv EXCEPT !["alarm"] =
                  [@ EXCEPT !.entries = entries,
                            !.localTimestamp = entriesLastModified,
                            !.reads = @ + 1,
                            !.pc = IF Len(entries) = 0 THEN "done" ELSE "propfind"]]
    /\ UNCHANGED <<entries, entriesLastModified, lastSyncedTimestamp, webdavConfig,
                   webdavSyncLogs, clock, hashSeed, runs, pure>>

\* PROPFIND; a response that is not ok leaves remoteTimestamp 0.
onAlarmPropfind ==
    /\ inv["alarm"].pc = "propfind"
    /\ \E resp \in PropfindResponses :
          LET sel == IF resp.kind = "ok" THEN AlarmSelect(resp.listing)
                     ELSE [remoteTimestamp |-> Num(0), remoteFilename |-> <<>>]
          IN inv' = [inv EXCEPT !["alarm"] =
                        [@ EXCEPT !.sent = Append(@, Request("PROPFIND", <<>>, <<>>)),
                                  !.remoteTimestamp = sel.remoteTimestamp,
                                  !.remoteFilename = sel.remoteFilename,
                                  !.failure = IF resp.kind = "ok" THEN "none"
                                              ELSE IF resp.kind = "status"
                                              THEN "propfind-status"
                                              ELSE "propfind-throw",
                                  !.pc = IF resp.kind = "throw" THEN "catch"
                                         ELSE "decide"]]
    /\ UNCHANGED <<entries, entriesLastModified, lastSyncedTimestamp, webdavConfig,
                   webdavSyncLogs, clock, hashSeed, runs, pure>>

\* The decision, and the AUTO_BACKUP_TRIGGER log entry of the chosen branch.
onAlarmDecide ==
    /\ inv["alarm"].pc = "decide"
    /\ LET a == AlarmDecision(inv["alarm"].localTimestamp,
                              inv["alarm"].remoteTimestamp,
                              inv["alarm"].remoteFilename)
       IN inv' = [inv EXCEPT !["alarm"] =
                     [@ EXCEPT !.action = a, !.decided = TRUE,
                               !.pc = IF a = "Download" THEN "get"
                                      ELSE IF a = "Upload" THEN "put" ELSE "noop"]]
    /\ webdavSyncLogs' =
          PushLog(webdavSyncLogs, LogEntry(clock, "INFO", "AUTO_BACKUP_TRIGGER", 0))
    /\ UNCHANGED <<entries, entriesLastModified, lastSyncedTimestamp, webdavConfig,
                   clock, hashSeed, runs, pure>>

\* GET of the selected file, json(), the merge and the single storage write.
onAlarmDownload ==
    /\ inv["alarm"].pc = "get"
    /\ \E resp \in GetResponses, t2 \in clock..Min(clock + 1, MaxClock) :
          LET me == inv["alarm"]
              sent == Append(me.sent, Request("GET", me.remoteFilename, <<>>))
              m == DownloadMerge(me.entries, resp.accounts, hashSeed)
              w == DownloadSet(Store, m.merged, clock, t2)
          IN /\ hashSeed + IdLess(resp.accounts) <= MaxGenerated
             /\ resp.kind # "plain" => t2 = clock
             /\ IF resp.kind = "plain"
                THEN /\ entries' = w.entries
                     /\ entriesLastModified' = w.entriesLastModified
                     /\ lastSyncedTimestamp' = w.lastSyncedTimestamp
                     /\ clock' = t2
                     /\ hashSeed' = m.seed
                     /\ webdavSyncLogs' = webdavSyncLogs
                     /\ inv' = [inv EXCEPT !["alarm"] =
                                   [@ EXCEPT !.sent = sent, !.body = "plain",
                                             !.merged = m.merged, !.writes = @ + 1,
                                             !.pc = "logSuccess"]]
                ELSE /\ UNCHANGED <<entries, entriesLastModified, lastSyncedTimestamp,
                                    clock, hashSeed>>
                     /\ webdavSyncLogs' =
                           IF resp.kind = "status"
                           THEN PushLog(webdavSyncLogs,
                                        LogEntry(clock, "ERROR", "BACKUP_FAILED", 0))
                           ELSE webdavSyncLogs
                     /\ inv' = [inv EXCEPT !["alarm"] =
                                   [@ EXCEPT !.sent = sent,
                                             !.body = IF resp.kind \in {"throw", "status"}
                                                      THEN "none" ELSE resp.kind,
                                             !.failure = GetFailure(resp.kind),
                                             !.pc = IF resp.kind \in {"throw", "unparsable"}
                                                    THEN "catch" ELSE "done"]]
    /\ UNCHANGED <<webdavConfig, runs, pure>>

\* PUT of the snapshot; on success lastSyncedTimestamp is written.
onAlarmUpload ==
    /\ inv["alarm"].pc = "put"
    /\ \E resp \in PutResponses :
          LET me == inv["alarm"]
              sent == Append(me.sent, Request("PUT", UploadName, me.entries))
              ok == resp.kind = "response" /\ PutSucceeded(resp.status)
          IN /\ lastSyncedTimestamp' = IF ok THEN clock ELSE lastSyncedTimestamp
             /\ webdavSyncLogs' =
                   IF resp.kind = "response" /\ ~ok
                   THEN PushLog(webdavSyncLogs,
                                LogEntry(clock, "ERROR", "BACKUP_FAILED", 0))
                   ELSE webdavSyncLogs
             /\ inv' = [inv EXCEPT !["alarm"] =
                           [@ EXCEPT !.sent = sent,
                                     !.failure = IF ok THEN @
                                                 ELSE IF resp.kind = "throw"
                                                 THEN "put-throw" ELSE "put-status",
                                     !.pc = IF ok THEN "logSuccess"
                                            ELSE IF resp.kind = "throw" THEN "catch"
                                            ELSE "done"]]
    /\ UNCHANGED <<entries, entriesLastModified, webdavConfig, clock, hashSeed,
                   runs, pure>>

\* The BACKUP_SUCCESS log entry after a download write or an upload.
onAlarmLogSuccess ==
    /\ inv["alarm"].pc = "logSuccess"
    /\ webdavSyncLogs' =
          PushLog(webdavSyncLogs, LogEntry(clock, "INFO", "BACKUP_SUCCESS", 0))
    /\ inv' = [inv EXCEPT !["alarm"].pc = "done"]
    /\ UNCHANGED <<entries, entriesLastModified, lastSyncedTimestamp, webdavConfig,
                   clock, hashSeed, runs, pure>>

\* Already up to date: lastSyncedTimestamp is written after the log entry.
onAlarmNoOp ==
    /\ inv["alarm"].pc = "noop"
    /\ lastSyncedTimestamp' = clock
    /\ inv' = [inv EXCEPT !["alarm"].pc = "done"]
    /\ UNCHANGED <<entries, entriesLastModified, webdavConfig, webdavSyncLogs,
                   clock, hashSeed, runs, pure>>

\* catch (error): the error log entry.
onAlarmCatch ==
    /\ inv["alarm"].pc = "catch"
    /\ webdavSyncLogs' =
          PushLog(webdavSyncLogs, LogEntry(clock, "ERROR", "BACKUP_FAILED", 0))
    /\ inv' = [inv EXCEPT !["alarm"].pc = "done"]
    /\ UNCHANGED <<entries, entriesLastModified, lastSyncedTimestamp, webdavConfig,
                   clock, hashSeed, runs, pure>>

\* The listener's promise settles.
onAlarmReturn ==
    /\ inv["alarm"].pc = "done"
    /\ inv' = [inv EXCEPT !["alarm"] = IdleInv]
    /\ UNCHANGED <<entries, entriesLastModified, lastSyncedTimestamp, webdavConfig,
                   webdavSyncLogs, clock, hashSeed, runs, pure>>

(***************************************************************************)
(* popup/index.tsx: loadSettings, "Sync on startup".                       *)
(***************************************************************************)
\* The popup opens; webdavConfig is read.
loadSettings ==
    /\ inv["startup"].pc = "idle"
    /\ runs < MaxRuns
    /\ runs' = runs + 1
    /\ inv' = [inv EXCEPT !["startup"] =
                  Begin(webdavConfig,
                        IF webdavConfig.syncOnStartup /\ Complete(webdavConfig)
                        THEN "snapshot" ELSE "done")]
    /\ UNCHANGED <<entries, entriesLastModified, lastSyncedTimestamp, webdavConfig,
                   webdavSyncLogs, clock, hashSeed, pure>>

\* get(['entries', 'entriesLastModified', 'lastSyncedTimestamp']); the
\* "no local changes" test only logs.
loadSettingsGetData ==
    /\ inv["startup"].pc = "snapshot"
    /\ inv' = [inv EXCEPT !["startup"] =
                  [@ EXCEPT !.entries = entries,
                            !.localTimestamp = entriesLastModified,
                            !.reads = @ + 1,
                            !.pc = "propfind"]]
    /\ UNCHANGED <<entries, entriesLastModified, lastSyncedTimestamp, webdavConfig,
                   webdavSyncLogs, clock, hashSeed, runs, pure>>

\* PROPFIND, the scan and the decision; the NoOp branch writes
\* lastSyncedTimestamp at once.
loadSettingsPropfind ==
    /\ inv["startup"].pc = "propfind"
    /\ \E resp \in PropfindResponses :
          LET me == inv["startup"]
              sent == Append(me.sent, Request("PROPFIND", <<>>, <<>>))
              latestRemote == StartupSelect(resp.listing)
              a == StartupDecision(me.localTimestamp, latestRemote, me.entries)
          IN IF resp.kind = "ok"
             THEN /\ inv' = [inv EXCEPT !["startup"] =
                                [@ EXCEPT !.sent = sent,
                                          !.remoteTimestamp = latestRemote.timestamp,
                                          !.remoteFilename = latestRemote.name,
                                          !.action = a, !.decided = TRUE,
                                          !.pc = IF a = "Download" THEN "get"
                                                 ELSE IF a = "Upload" THEN "put"
                                                 ELSE "done"]]
                  /\ lastSyncedTimestamp' =
                        IF a = "NoOp" THEN clock ELSE lastSyncedTimestamp
             ELSE /\ inv' = [inv EXCEPT !["startup"] =
                                [@ EXCEPT !.sent = sent,
                                          !.failure = IF resp.kind = "status"
                                                      THEN "propfind-status"
                                                      ELSE "propfind-throw",
                                          !.pc = IF resp.kind = "throw" THEN "catch"
                                                 ELSE "done"]]
                  /\ UNCHANGED lastSyncedTimestamp
    /\ UNCHANGED <<entries, entriesLastModified, webdavConfig, webdavSyncLogs,
                   clock, hashSeed, runs, pure>>

\* GET of the selected file, json(), the merge and the single storage write.
loadSettingsDownload ==
    /\ inv["startup"].pc = "get"
    /\ \E resp \in GetResponses, t2 \in clock..Min(clock + 1, MaxClock) :
          LET me == inv["startup"]
              sent == Append(me.sent, Request("GET", me.remoteFilename, <<>>))
              m == DownloadMerge(me.entries, resp.accounts, hashSeed)
              w == DownloadSet(Store, m.merged, clock, t2)
          IN /\ hashSeed + IdLess(resp.accounts) <= MaxGenerated
             /\ resp.kind # "plain" => t2 = clock
             /\ IF resp.kind = "plain"
                THEN /\ entries' = w.entries
                     /\ entriesLastModified' = w.entriesLastModified
                     /\ lastSyncedTimestamp' = w.lastSyncedTimestamp
                     /\ clock' = t2
                     /\ hashSeed' = m.seed
                     /\ inv' = [inv EXCEPT !["startup"] =
                                   [@ EXCEPT !.sent = sent, !.body = "plain",
                                             !.merged = m.merged, !.writes = @ + 1,
                                             !.pc = "done"]]
                ELSE /\ UNCHANGED <<entries, entriesLastModified, lastSyncedTimestamp,
                                    clock, hashSeed>>
                     /\ inv' = [inv EXCEPT !["startup"] =
                                   [@ EXCEPT !.sent = sent,
                                             !.body = IF resp.kind \in {"throw", "status"}
                                                      THEN "none" ELSE resp.kind,
                                             !.failure = GetFailure(resp.kind),
                                             !.pc = IF resp.kind \in {"throw", "unparsable"}
                                                    THEN "catch" ELSE "done"]]
    /\ UNCHANGED <<webdavConfig, webdavSyncLogs, runs, pure>>

\* PUT of the snapshot; on success lastSyncedTimestamp is written.
loadSettingsUpload ==
    /\ inv["startup"].pc = "put"
    /\ \E resp \in PutResponses :
          LET me == inv["startup"]
              sent == Append(me.sent, Request("PUT", UploadName, me.entries))
              ok == resp.kind = "response" /\ PutSucceeded(resp.status)
          IN /\ lastSyncedTimestamp' = IF ok THEN clock ELSE lastSyncedTimestamp
             /\ inv' = [inv EXCEPT !["startup"] =
                           [@ EXCEPT !.sent = sent,
                                     !.failure = IF ok THEN @
                                                 ELSE IF resp.kind = "throw"
                                                 THEN "put-throw" ELSE "put-status",
                                     !.pc = IF resp.kind = "throw" THEN "catch"
                                            ELSE "done"]]
    /\ UNCHANGED <<entries, entriesLastModified, webdavConfig, webdavSyncLogs,
                   clock, hashSeed, runs, pure>>

\* catch (err): console.log only.
loadSettingsCatch ==
    /\ inv["startup"].pc = "catch"
    /\ inv' = [inv EXCEPT !["startup"].pc = "done"]
    /\ UNCHANGED <<entries, entriesLastModified, lastSyncedTimestamp, webdavConfig,
                   webdavSyncLogs, clock, hashSeed, runs, pure>>

\* loadSettings' promise settles.
loadSettingsReturn ==
    /\ inv["startup"].pc = "done"
    /\ inv' = [inv EXCEPT !["startup"] = IdleInv]
    /\ UNCHANGED <<entries, entriesLastModified, lastSyncedTimestamp, webdavConfig,
                   webdavSyncLogs, clock, hashSeed, runs, pure>>

(***************************************************************************)
(* The other writers of the vault and the passing of time.                 *)
(***************************************************************************)
\* accountsReducer 'addCode': the new list and entriesLastModified are saved.
addCode ==
    /\ hashSeed < MaxGenerated
    /\ entries' = Append(entries, [hash |-> generateHash(hashSeed), secret |-> "A"])
    /\ hashSeed' = hashSeed + 1
    /\ entriesLastModified' = clock
    /\ UNCHANGED <<lastSyncedTimestamp, webdavConfig, webdavSyncLogs, clock, inv,
                   runs, pure>>

\* accountsReducer 'deleteCode': the filtered list and entriesLastModified are saved.
deleteCode ==
    /\ \E k \in DOMAIN entries :
          /\ entries[k].hash # NoHash
          /\ entries' = SelectSeq(entries, LAMBDA e : e.hash # entries[k].hash)
    /\ entriesLastModified' = clock
    /\ UNCHANGED <<lastSyncedTimestamp, webdavConfig, webdavSyncLogs, clock, hashSeed,
                   inv, runs, pure>>

\* background.ts 'saveQRAccount': a duplicate secret is refused, otherwise the
\* entry is pushed and set({ entries }) alone is written.
saveQRAccount ==
    /\ hashSeed < MaxGenerated
    /\ \E secret \in Secrets :
          /\ \A k \in DOMAIN entries : entries[k].secret # secret
          /\ entries' = Append(entries, [hash |-> generateHash(hashSeed), secret |-> secret])
    /\ hashSeed' = hashSeed + 1
    /\ UNCHANGED <<entriesLastModified, lastSyncedTimestamp, webdavConfig,
                   webdavSyncLogs, clock, inv, runs, pure>>

\* Time passes.
Tick ==
    /\ clock < MaxClock
    /\ runs < MaxRuns \/ ~AllIdle
    /\ clock' = clock + 1
    /\ UNCHANGED <<entries, entriesLastModified, lastSyncedTimestamp, webdavConfig,
                   webdavSyncLogs, hashSeed, inv, runs, pure>>

(***************************************************************************)
(* Spec: one invocation at a time, the other writers acting between        *)
(* invocations.                                                            *)
(***************************************************************************)
Init ==
    /\ entries = <<>>
    /\ entriesLastModified = 0
    /\ lastSyncedTimestamp \in {0, 1}
    /\ webdavSyncLogs = <<>>
    /\ clock = 1
    /\ hashSeed = 0
    /\ inv = [h \in Handlers |-> IdleInv]
    /\ runs = 0
    /\ webdavConfig \in Configs
    /\ pure = NoPure

Next ==
    \/ (AllIdle /\ onAlarm)
    \/ onAlarmGetEntries
    \/ onAlarmPropfind
    \/ onAlarmDecide
    \/ onAlarmDownload
    \/ onAlarmUpload
    \/ onAlarmLogSuccess
    \/ onAlarmNoOp
    \/ onAlarmCatch
    \/ onAlarmReturn
    \/ (AllIdle /\ loadSettings)
    \/ loadSettingsGetData
    \/ loadSettingsPropfind
    \/ loadSettingsDownload
    \/ loadSettingsUpload
    \/ loadSettingsCatch
    \/ loadSettingsReturn
    \/ (Between /\ addCode)
    \/ (Between /\ deleteCode)
    \/ (Between /\ saveQRAccount)
    \/ Tick

Spec == Init /\ [][Next]_vars

(***************************************************************************)
(* C1, C2, C5, C6, C8, C10: one resolver invocation.                       *)
(***************************************************************************)
Actions == {"Download", "Upload", "NoOp"}

\* C1 as stated: whenever the config is complete, whatever the local entry
\* set, the resolver chooses Download exactly when remoteTimestamp >
\* localTimestamp, Upload exactly when localTimestamp > remoteTimestamp, and
\* NoOp exactly when they are equal.
C1_DecisionRule ==
    \A h \in Handlers :
        LET me == inv[h]
            l == Num(me.localTimestamp)
            r == me.remoteTimestamp
        IN /\ me.decided =>
                /\ me.action = "Download" <=> JsGt(r, l)
                /\ me.action = "Upload" <=> JsGt(l, r)
                /\ me.action = "NoOp" <=> r = l
           /\ (me.pc = "done" /\ me.failure = "none" /\ Complete(me.config)
                 /\ (h = "startup" => me.config.syncOnStartup)) => me.decided

\* C1 amended: with a non-empty local entry snapshot, an invocation that
\* reaches the decision chooses Download exactly when remoteTimestamp >
\* localTimestamp, Upload exactly when localTimestamp > remoteTimestamp, and
\* NoOp exactly when they are equal (remoteTimestamp as the scan left it, an
\* unparsable date read as 0).
C1_DecisionRuleNonEmpty ==
    \A h \in Handlers :
        LET me == inv[h]
            l == me.localTimestamp
            r == JsOr0(me.remoteTimestamp)
        IN (me.decided /\ Len(me.entries) > 0) =>
              /\ me.action = "Download" <=> r > l
              /\ me.action = "Upload" <=> l > r
              /\ me.action = "NoOp" <=> r = l

C1_Witness ==
    /\ inv["startup"].decided
    /\ Len(inv["startup"].entries) > 0
    /\ inv["startup"].action = "Upload"
    /\ inv["startup"].localTimestamp > JsOr0(inv["startup"].remoteTimestamp)
    /\ JsOr0(inv["startup"].remoteTimestamp) > 0

\* C2: an invocation that chose an action and met no failure (a well-formed
\* envelope, plaintext or encrypted, on Download; a success status on
\* Upload) ends with lastSyncedTimestamp not smaller than before and not
\* smaller than the time the invocation started.
C2_AdvancesLastSynced ==
    \A h \in Handlers :
        (inv[h].pc = "done" /\ inv[h].action \in Actions /\ inv[h].failure = "none")
            => /\ lastSyncedTimestamp >= inv[h].pre.lastSyncedTimestamp
               /\ lastSyncedTimestamp >= inv[h].started

\* C5: an invocation in which a request failed, returned a non-success
\* status or an unusable body leaves entries, entriesLastModified and
\* lastSyncedTimestamp as they were.
C5_FailureLeavesStorage ==
    \A h \in Handlers :
        (inv[h].pc = "done" /\ inv[h].failure # "none") => Store = inv[h].pre

\* C6: every failure inside an invocation has put an ERROR entry in the sync
\* log by the time the handler ends.
C6_FailureLogged ==
    \A h \in Handlers :
        (inv[h].pc = "done" /\ inv[h].failure # "none")
            => \E i \in (inv[h].nlogs + 1)..Len(webdavSyncLogs) :
                   webdavSyncLogs[i].level = "ERROR"

\* C8: an alarm that fires with entriesLastModified <= lastSyncedTimestamp
\* sends no request and does not reach the decision.
C8_NoRequestWhenSynced ==
    (inv["alarm"].pc # "idle"
       /\ inv["alarm"].pre.entriesLastModified <= inv["alarm"].pre.lastSyncedTimestamp)
        => (inv["alarm"].sent = <<>> /\ ~inv["alarm"].decided)

\* C10: an invocation reads the entry list once and writes it at most once;
\* entries and entriesLastModified differ from what they were at the start
\* only as the merged list stored together with both timestamps, taken at
\* that write.
C10_SingleWrite ==
    \A h \in Handlers :
        LET me == inv[h] IN
        me.pc # "idle" =>
            /\ me.reads <= 1
            /\ me.writes <= 1
            /\ (entries # me.pre.entries
                  \/ entriesLastModified # me.pre.entriesLastModified) =>
                  /\ me.action = "Download"
                  /\ me.writes = 1
                  /\ entries = me.merged
                  /\ entriesLastModified >= me.started
                  /\ lastSyncedTimestamp >= entriesLastModified
            /\ me.writes = 1 =>
                  /\ entries = me.merged
                  /\ entriesLastModified >= me.started
                  /\ lastSyncedTimestamp >= entriesLastModified

C10_Witness ==
    \E h \in Handlers :
        /\ inv[h].pc = "done"
        /\ inv[h].writes = 1
        /\ inv[h].reads = 1
        /\ Len(entries) > Len(inv[h].pre.entries)
        /\ Len(inv[h].pre.entries) > 0
        /\ inv[h].pre.entriesLastModified < inv[h].started
        /\ entriesLastModified >= inv[h].started

(***************************************************************************)
(* SpecSame: the alarm sync, the startup sync and the manual backup, each  *)
(* run to its end from the same storage and against the same server        *)
(* answers, all storage writes stamped with the same clock value.          *)
(***************************************************************************)
Triggers == {"alarm", "startup", "manual"}

\* handleBackup: auths-backup-<today without dashes>.json
ManualUploadName == <<"auths-backup", "-todaycompact", ".json">>

Outcome(action, sent, store) == [action |-> action, sent |-> sent, store |-> store]

\* background.ts, the autoBackup listener from the entries read to its end.
AlarmRun(store, propfind, get, put, now) ==
    LET sel == IF propfind.kind = "ok" THEN AlarmSelect(propfind.listing)
               ELSE [remoteTimestamp |-> Num(0), remoteFilename |-> <<>>]
        a == AlarmDecision(store.entriesLastModified, sel.remoteTimestamp,
                           sel.remoteFilename)
        listed == <<Request("PROPFIND", <<>>, <<>>)>>
    IN IF Len(store.entries) = 0 THEN Outcome("none", <<>>, store)
       ELSE IF propfind.kind = "throw" THEN Outcome("none", listed, store)
       ELSE IF a = "Download"
       THEN Outcome(a, Append(listed, Request("GET", sel.remoteFilename, <<>>)),
                    IF get.kind = "plain"
                    THEN DownloadSet(store,
                                     DownloadMerge(store.entries, get.accounts, 0).merged,
                                     now, now)
                    ELSE store)
       ELSE IF a = "Upload"
       THEN Outcome(a, Append(listed, Request("PUT", UploadName, store.entries)),
                    IF put.kind = "response" /\ PutSucceeded(put.status)
                    THEN [store EXCEPT !.lastSyncedTimestamp = now]
                    ELSE store)
       ELSE Outcome(a, listed, [store EXCEPT !.lastSyncedTimestamp = now])

\* popup/index.tsx, the startup sync from the data read to its end.
StartupRun(store, propfind, get, put, now) ==
    LET latestRemote == StartupSelect(propfind.listing)
        a == StartupDecision(store.entriesLastModified, latestRemote, store.entries)
        listed == <<Request("PROPFIND", <<>>, <<>>)>>
    IN IF propfind.kind # "ok" THEN Outcome("none", listed, store)
       ELSE IF a = "Download"
       THEN Outcome(a, Append(listed, Request("GET", latestRemote.name, <<>>)),
                    IF get.kind = "plain"
                    THEN DownloadSet(store,
                                     DownloadMerge(store.entries, get.accounts, 0).merged,
                                     now, now)
                    ELSE store)
       ELSE IF a = "Upload"
       THEN Outcome(a, Append(listed, Request("PUT", UploadName, store.entries)),
                    IF put.kind = "response" /\ PutSucceeded(put.status)
                    THEN [store EXCEPT !.lastSyncedTimestamp = now]
                    ELSE store)
       ELSE Outcome(a, listed, [store EXCEPT !.lastSyncedTimestamp = now])

\* WebDAV.handleBackup: no listing, no comparison, a PUT of the entries.
handleBackup(store, put) ==
    IF Len(store.entries) = 0 THEN Outcome("none", <<>>, store)
    ELSE Outcome("Upload", <<Request("PUT", ManualUploadName, store.entries)>>, store)

SameStores ==
    [entries : {<<>>, <<[hash |-> 1, secret |-> "A"]>>},
     entriesLastModified : 0..MaxClock,
     lastSyncedTimestamp : {0}]

InitSame ==
    /\ AtRest
    /\ webdavConfig \in {c \in Configs : Complete(c) /\ c.syncOnStartup}
    /\ pure \in [op : {"same"}, store : SameStores,
                 propfind : PropfindResponses, get : GetResponses, put : PutResponses,
                 ran : {{}},
                 out : {[h \in Triggers |-> Outcome("unrun", <<>>, <<>>)]}]

RunAlarm ==
    /\ pure.op = "same"
    /\ "alarm" \notin pure.ran
    /\ pure' = [pure EXCEPT !.ran = @ \cup {"alarm"},
                            !.out["alarm"] = AlarmRun(pure.store, pure.propfind,
                                                      pure.get, pure.put, clock)]
    /\ UNCHANGED <<entries, entriesLastModified, lastSyncedTimestamp, webdavConfig,
                   webdavSyncLogs, clock, hashSeed, inv, runs>>

RunStartup ==
    /\ pure.op = "same"
    /\ "startup" \notin pure.ran
    /\ pure' = [pure EXCEPT !.ran = @ \cup {"startup"},
                            !.out["startup"] = StartupRun(pure.store, pure.propfind,
                                                          pure.get, pure.put, clock)]
    /\ UNCHANGED <<entries, entriesLastModified, lastSyncedTimestamp, webdavConfig,
                   webdavSyncLogs, clock, hashSeed, inv, runs>>

RunManual ==
    /\ pure.op = "same"
    /\ "manual" \notin pure.ran
    /\ pure' = [pure EXCEPT !.ran = @ \cup {"manual"},
                            !.out["manual"] = handleBackup(pure.store, pure.put)]
    /\ UNCHANGED <<entries, entriesLastModified, lastSyncedTimestamp, webdavConfig,
                   webdavSyncLogs, clock, hashSeed, inv, runs>>

NextSame == RunAlarm \/ RunStartup \/ RunManual

SpecSame == InitSame /\ [][NextSame]_vars

\* C11: started from the same storage and the same server answers, the alarm
\* sync, the startup sync and the manual backup choose the same action, send
\* the same requests for the same file names and leave the same entries,
\* entriesLastModified and lastSyncedTimestamp.
C11_SameResolver ==
    pure.op = "same" =>
        \A g, h \in pure.ran : pure.out[g] = pure.out[h]

(***************************************************************************)
(* C12: ids in the vault.                                                  *)
(***************************************************************************)
\* Every entry has an id and no two entries share one.
ValidVault(E) ==
    /\ \A i \in DOMAIN E : E[i].hash # NoHash
    /\ \A i, j \in DOMAIN E : E[i].hash = E[j].hash => i = j

\* C12: a vault whose entries have distinct non-empty ids still has distinct
\* non-empty ids after an auto-sync merge, a WebDAV restore or a backup-file
\* import of any payload.
C12_UniqueIds ==
    (pure.op \in {"merged", "remerged"} /\ ValidVault(pure.local))
        => /\ ValidVault(pure.out)
           /\ pure.op = "remerged" => ValidVault(pure.out2)

(***************************************************************************)
(* otpauth URIs.  A string is a sequence of tokens, ":" being a token of   *)
(* its own; a query parameter is absent, a text, or the decimal text of a  *)
(* number.                                                                 *)
(***************************************************************************)
Absent == [kind |-> "absent"]
Txt(s) == [kind |-> "text", s |-> s]
Dec(n) == [kind |-> "int", v |-> n]

\* params.get(name) || fallback
GetOr(param, fallback) ==
    IF param = Absent \/ param = Txt("") THEN fallback ELSE param

\* parseInt(text)
parseInt(param) == IF param.kind = "int" THEN Num(param.v) ELSE NaN

\* String(number)
String(n) == Dec(n)

toUpperCase(s) ==
    CASE s = "jbsw" -> "JBSW"
      [] s = "sha256" -> "SHA256"
      [] s = "sha512" -> "SHA512"
      [] OTHER -> s

\* /^[A-Z2-7]+=*$/i .test(secret)
base32Regex(s) == s \in {"JBSW", "jbsw", "JBSW=="}

encodeURIComponent(str) ==
    [i \in DOMAIN str |-> IF str[i] = ":" THEN "%3A"
                          ELSE IF str[i] = " " THEN "%20" ELSE str[i]]

\* label.split(':'), parts[0] and parts[1] (undefined: the empty string)
MinOf(S) == CHOOSE x \in S : \A y \in S : x <= y
Colons(label) == {i \in DOMAIN label : label[i] = ":"}
Part0(label) == SubSeq(label, 1, MinOf(Colons(label)) - 1)
Part1(label) ==
    LET first == MinOf(Colons(label))
        later == {i \in Colons(label) : i > first}
    IN SubSeq(label, first + 1, IF later = {} THEN Len(label) ELSE MinOf(later) - 1)

\* The messages a parser throws.  The popup throws t(key): the key itself
\* when the locale has no such message, its translation otherwise.
t(key, translated) == [key |-> key, translated |-> translated]
Message(text) == [key |-> text, translated |-> FALSE]

Failed(error) == [ok |-> FALSE, error |-> error]
Parsed(entry) == [ok |-> TRUE, entry |-> entry]

\* The fields both parsers read from the URL in the same way.
ParsedFields(uri, unknownIssuer) ==
    LET label == decodeURIComponent(uri.label)
        given == IF uri.issuer.kind = "text" THEN uri.issuer.s ELSE <<>>
        issuer == IF Colons(label) # {} /\ given = <<>> THEN Part0(label) ELSE given
        account == IF Colons(label) # {} THEN Part1(label) ELSE label
        algorithm == IF uri.algorithm = Absent THEN "SHA1"
                     ELSE IF toUpperCase(uri.algorithm.s) = "" THEN "SHA1"
                     ELSE toUpperCase(uri.algorithm.s)
    IN [type |-> IF uri.host = "hotp" THEN 2 ELSE 1,
        issuer |-> IF issuer = <<>> THEN unknownIssuer ELSE issuer,
        account |-> account,
        secret |-> toUpperCase(uri.secret.s),
        period |-> parseInt(GetOr(uri.period, Dec(30))),
        digits |-> parseInt(GetOr(uri.digits, Dec(6))),
        algorithm |-> IF algorithm = "SHA256" THEN 2
                      ELSE IF algorithm = "SHA512" THEN 3 ELSE 1,
        counter |-> parseInt(GetOr(uri.counter, Dec(0)))]

\* background.ts parseOtpAuthUrl
parseOtpAuthUrl(uri) ==
    IF uri.scheme # "otpauth" THEN Failed(Message("Not a valid otpauth URL"))
    ELSE IF uri.host \notin {"totp", "hotp"} THEN Failed(Message("Unsupported OTP type"))
    ELSE IF uri.secret = Absent \/ uri.secret = Txt("")
    THEN Failed(Message("No secret found in URL"))
    ELSE IF ~base32Regex(uri.secret.s) THEN Failed(Message("Invalid secret key"))
    ELSE Parsed(ParsedFields(uri, <<"Unknown">>))

\* AddMethodSelector parseOtpAuthUrl: the first test is outside the try; an
\* error thrown inside it is rethrown only if its message starts with
\* 'qr_error', and replaced by t('qr_error_parse_failed') otherwise.
PopupTry(uri, translated) ==
    LET e == ParsedFields(uri, <<t("qr_unknown_issuer", translated)>>)
    IN IF uri.host \notin {"totp", "hotp"}
       THEN Failed(t("qr_error_unsupported_type", translated))
       ELSE IF uri.secret = Absent \/ uri.secret = Txt("")
       THEN Failed(t("qr_error_no_secret", translated))
       ELSE IF ~base32Regex(uri.secret.s)
       THEN Failed(t("qr_error_invalid_secret", translated))
       ELSE IF JsGt(Num(1), e.period) \/ JsGt(e.period, Num(300))
       THEN Failed(t("qr_error_invalid_period", translated))
       ELSE IF JsGt(Num(4), e.digits) \/ JsGt(e.digits, Num(10))
       THEN Failed(t("qr_error_invalid_digits", translated))
       ELSE Parsed(e)

PopupParseOtpAuthUrl(uri, translated) ==
    LET r == PopupTry(uri, translated)
    IN IF uri.scheme # "otpauth" THEN Failed(t("qr_error_not_otp_url", translated))
       ELSE IF r.ok \/ ~r.error.translated THEN r
       ELSE Failed(t("qr_error_parse_failed", translated))

(***************************************************************************)
(* SpecParse: one scanned QR text taken in by the background handler       *)
(* (saveQRAccount) or by the popup (handleQRCodeDetected), into an empty   *)
(* vault.                                                                  *)
(***************************************************************************)
Uris ==
    [scheme : {"otpauth", "https"},
     host : {"totp", "hotp", "steam"},
     label : {<<"alice">>, <<"Acme", "%3A", "alice">>, <<"Acme", ":", "alice">>},
     secret : {Absent, Txt(""), Txt("jbsw"), Txt("JB1W")},
     issuer : {Absent, Txt(<<"Acme">>)},
     period : {Absent, Dec(60), Dec(0), Txt("x")},
     digits : {Absent, Dec(8), Dec(99), Txt("x")},
     algorithm : {Absent, Txt("sha256")},
     counter : {Absent, Dec(5)}]

NoResult == Failed(Message("none"))

InitParse ==
    /\ AtRest
    /\ webdavConfig = NoConfig
    /\ pure \in [op : {"qr"}, via : {"none"}, uri : Uris, translated : BOOLEAN,
                 result : {NoResult}, stored : {<<>>}]

\* background.ts saveQRAccount: parse, add a hash, push, set.
ScanInBackground ==
    /\ pure.op = "qr"
    /\ ~pure.translated
    /\ LET r == parseOtpAuthUrl(pure.uri)
       IN /\ pure' = [pure EXCEPT !.op = "scanned", !.via = "background", !.result = r,
                                  !.stored = IF r.ok THEN <<r.entry>> ELSE <<>>]
    /\ UNCHANGED <<entries, entriesLastModified, lastSyncedTimestamp, webdavConfig,
                   webdavSyncLogs, clock, hashSeed, inv, runs>>

\* handleQRCodeDetected: parse, dispatch addCode.
ScanInPopup ==
    /\ pure.op = "qr"
    /\ LET r == PopupParseOtpAuthUrl(pure.uri, pure.translated)
       IN /\ pure' = [pure EXCEPT !.op = "scanned", !.via = "popup", !.result = r,
                                  !.stored = IF r.ok THEN <<r.entry>> ELSE <<>>]
    /\ UNCHANGED <<entries, entriesLastModified, lastSyncedTimestamp, webdavConfig,
                   webdavSyncLogs, clock, hashSeed, inv, runs>>

NextParse == ScanInBackground \/ ScanInPopup

SpecParse == InitParse /\ [][NextParse]_vars

InRange(n, lo, hi) == ~n.nan /\ n.v >= lo /\ n.v <= hi

\* C13: every entry stored from a scanned QR text has digits in [4,10] and
\* period in [1,300].
C13_StoredInRange ==
    pure.op = "scanned" =>
        \A i \in DOMAIN pure.stored :
            /\ InRange(pure.stored[i].digits, 4, 10)
            /\ InRange(pure.stored[i].period, 1, 300)

\* The check of the grammar that fails first: scheme, authority, secret
\* present, secret in Base32 ("none": all pass).
FirstFailedCheck(uri) ==
    IF uri.scheme # "otpauth" THEN "MalformedUri"
    ELSE IF uri.host \notin {"totp", "hotp"} THEN "UnsupportedOtpType"
    ELSE IF uri.secret = Absent THEN "MissingSecret"
    ELSE IF ~base32Regex(uri.secret.s) THEN "InvalidSecretKey"
    ELSE "none"

\* The check an error message names.
ErrorName(error) ==
    CASE error.key \in {"Not a valid otpauth URL", "qr_error_not_otp_url"} -> "MalformedUri"
      [] error.key \in {"Unsupported OTP type", "qr_error_unsupported_type"}
            -> "UnsupportedOtpType"
      [] error.key \in {"No secret found in URL", "qr_error_no_secret"} -> "MissingSecret"
      [] error.key \in {"Invalid secret key", "qr_error_invalid_secret"} -> "InvalidSecretKey"
      [] OTHER -> "other"

\* C15: parse succeeds only if scheme, authority and secret pass, and then
\* stores the secret in upper case; if one of them fails, parse fails with
\* the error naming the first failed check and nothing is stored.
C15_ParseErrors ==
    pure.op = "scanned" =>
        LET expected == FirstFailedCheck(pure.uri)
        IN /\ pure.result.ok =>
                /\ expected = "none"
                /\ pure.stored[1].secret = toUpperCase(pure.uri.secret.s)
           /\ expected # "none" =>
                /\ ~pure.result.ok
                /\ ErrorName(pure.result.error) = expected
                /\ pure.stored = <<>>

(***************************************************************************)
(* SpecRound: the QR payload of a valid entry, generated by the entry      *)
(* card and read again by a parser.                                        *)
(***************************************************************************)
\* entry.digits || 6
OrElse(n, fallback) == IF n.nan \/ n.v = 0 THEN fallback ELSE n.v

\* EntryComponent generateOTPUri
generateOTPUri(entry) ==
    LET type == IF entry.type = 2 THEN "hotp" ELSE "totp"
        algorithm == IF entry.algorithm = 2 THEN "SHA256"
                     ELSE IF entry.algorithm = 3 THEN "SHA512" ELSE "SHA1"
    IN [scheme |-> "otpauth",
        host |-> type,
        label |-> encodeURIComponent(entry.issuer \o <<":">> \o entry.account),
        secret |-> Txt(entry.secret),
        issuer |-> Txt(entry.issuer),
        algorithm |-> Txt(algorithm),
        digits |-> String(OrElse(entry.digits, 6)),
        period |-> IF type = "totp" THEN String(OrElse(entry.period, 30)) ELSE Absent,
        counter |-> IF type = "totp" THEN Absent ELSE String(OrElse(entry.counter, 0))]

ValidEntries ==
    [type : {1, 2},
     issuer : {<<>>, <<"Acme">>},
     account : {<<>>, <<"alice">>, <<"al", ":", "ice">>},
     secret : {"JBSW", "JBSW=="},
     algorithm : {1, 2, 3},
     digits : {Num(6), Num(8)},
     period : {Num(30), Num(60)},
     counter : {Num(0), Num(5)}]

InitRound ==
    /\ AtRest
    /\ webdavConfig = NoConfig
    /\ pure \in [op : {"entry"}, via : {"none"}, entry : ValidEntries,
                 translated : BOOLEAN, uri : {Absent}, result : {NoResult}]

SerializeEntry ==
    /\ pure.op = "entry"
    /\ pure' = [pure EXCEPT !.op = "uri", !.uri = generateOTPUri(pure.entry)]
    /\ UNCHANGED <<entries, entriesLastModified, lastSyncedTimestamp, webdavConfig,
                   webdavSyncLogs, clock, hashSeed, inv, runs>>

ReparseInBackground ==
    /\ pure.op = "uri"
    /\ ~pure.translated
    /\ pure' = [pure EXCEPT !.op = "reparsed", !.via = "background",
                            !.result = parseOtpAuthUrl(pure.uri)]
    /\ UNCHANGED <<entries, entriesLastModified, lastSyncedTimestamp, webdavConfig,
                   webdavSyncLogs, clock, hashSeed, inv, runs>>

ReparseInPopup ==
    /\ pure.op = "uri"
    /\ pure' = [pure EXCEPT !.op = "reparsed", !.via = "popup",
                            !.result = PopupParseOtpAuthUrl(pure.uri, pure.translated)]
    /\ UNCHANGED <<entries, entriesLastModified, lastSyncedTimestamp, webdavConfig,
                   webdavSyncLogs, clock, hashSeed, inv, runs>>

NextRound == SerializeEntry \/ ReparseInBackground \/ ReparseInPopup

SpecRound == InitRound /\ [][NextRound]_vars

\* C16: parsing the serialized form of a valid entry gives back the entry's
\* issuer, account, secret, kind, algorithm, digits, period and counter.
C16_RoundTrip ==
    pure.op = "reparsed" =>
        /\ pure.result.ok
        /\ pure.result.entry = pure.entry

(***************************************************************************)
(* SpecAdd: add requests.  The background handler (saveQRAccount) reads    *)
(* the stored list, awaits, then checks and writes; the popup (manual form *)
(* and QR scan) checks the list it loaded when it opened and writes that   *)
(* list back through the reducer.  An account is told apart by its issuer  *)
(* and secret, here one value.                                             *)
(***************************************************************************)
Slots == {1, 2}

NoRequest ==
    [via |-> "none", account |-> "none", inVault |-> FALSE, rejected |-> FALSE,
     before |-> <<>>, after |-> <<>>]

IdleSlot == [pc |-> "idle", account |-> "none", entries |-> <<>>, inVault |-> FALSE]

\* entries.some(entry => entry.secret === secret && entry.issuer === issuer)
isDuplicate(list, account) == \E i \in DOMAIN list : list[i].secret = account

InitAdd ==
    /\ AtRest
    /\ webdavConfig = NoConfig
    /\ pure = [op |-> "add", open |-> FALSE, state |-> <<>>,
               slot |-> [s \in Slots |-> IdleSlot], adds |-> 0, last |-> NoRequest]

\* The popup opens and loads the stored entries into its state.
OpenPopup ==
    /\ pure.op = "add"
    /\ ~pure.open
    /\ pure' = [pure EXCEPT !.open = TRUE, !.state = entries]
    /\ UNCHANGED <<entries, entriesLastModified, lastSyncedTimestamp, webdavConfig,
                   webdavSyncLogs, clock, hashSeed, inv, runs>>

ClosePopup ==
    /\ pure.op = "add"
    /\ pure.open
    /\ pure' = [pure EXCEPT !.open = FALSE, !.state = <<>>]
    /\ UNCHANGED <<entries, entriesLastModified, lastSyncedTimestamp, webdavConfig,
                   webdavSyncLogs, clock, hashSeed, inv, runs>>

\* AddAccountForm.handleSubmit / handleQRCodeDetected, then the reducer's
\* addCode and saveEntriesToStorage.
PopupAdd ==
    /\ pure.op = "add"
    /\ pure.open
    /\ pure.adds < MaxAdds
    /\ \E account \in Secrets :
          LET dup == isDuplicate(pure.state, account)
              newEntries == Append(pure.state,
                                   [hash |-> generateHash(hashSeed), secret |-> account])
              stored == IF dup THEN entries ELSE newEntries
          IN /\ entries' = stored
             /\ entriesLastModified' = IF dup THEN entriesLastModified ELSE clock
             /\ hashSeed' = IF dup THEN hashSeed ELSE hashSeed + 1
             /\ pure' = [pure EXCEPT !.state = IF dup THEN @ ELSE newEntries,
                                     !.adds = @ + 1,
                                     !.last = [via |-> "popup", account |-> account,
                                               inVault |-> isDuplicate(entries, account),
                                               rejected |-> dup,
                                               before |-> entries, after |-> stored]]
    /\ UNCHANGED <<lastSyncedTimestamp, webdavConfig, webdavSyncLogs, clock, inv, runs>>

\* saveQRAccount up to the end of its storage read.
saveQRAccountGet(s) ==
    /\ pure.op = "add"
    /\ pure.slot[s].pc = "idle"
    /\ pure.adds < MaxAdds
    /\ \E account \in Secrets :
          pure' = [pure EXCEPT !.adds = @ + 1,
                               !.slot[s] = [pc |-> "read", account |-> account,
                                            entries |-> entries,
                                            inVault |-> isDuplicate(entries, account)]]
    /\ UNCHANGED <<entries, entriesLastModified, lastSyncedTimestamp, webdavConfig,
                   webdavSyncLogs, clock, hashSeed, inv, runs>>

\* saveQRAccount from the duplicate check to the storage write.
saveQRAccountSet(s) ==
    /\ pure.op = "add"
    /\ pure.slot[s].pc = "read"
    /\ LET me == pure.slot[s]
           dup == isDuplicate(me.entries, me.account)
           stored == IF dup THEN entries
                     ELSE Append(me.entries,
                                 [hash |-> generateHash(hashSeed), secret |-> me.account])
       IN /\ entries' = stored
          /\ hashSeed' = IF dup THEN hashSeed ELSE hashSeed + 1
          /\ pure' = [pure EXCEPT !.slot[s] = IdleSlot,
                                  !.last = [via |-> "background", account |-> me.account,
                                            inVault |-> me.inVault, rejected |-> dup,
                                            before |-> entries, after |-> stored]]
    /\ UNCHANGED <<entriesLastModified, lastSyncedTimestamp, webdavConfig,
                   webdavSyncLogs, clock, inv, runs>>

NextAdd ==
    \/ OpenPopup
    \/ ClosePopup
    \/ PopupAdd
    \/ \E s \in Slots : saveQRAccountGet(s)
    \/ \E s \in Slots : saveQRAccountSet(s)

SpecAdd == InitAdd /\ [][NextAdd]_vars

NoTwoAlike(list) ==
    \A i, j \in DOMAIN list : list[i].secret = list[j].secret => i = j

\* C14: an add request for an account already in the vault is rejected and
\* leaves the stored entries as they were, and the vault never holds two
\* entries with the same issuer and secret.
C14_DuplicateRejected ==
    pure.op = "add" =>
        /\ pure.last.inVault => (pure.last.rejected /\ pure.last.after = pure.last.before)
        /\ NoTwoAlike(entries)

(***************************************************************************)
(* SpecVault: the accounts reducer and the entry card working on a loaded  *)
(* list of TOTP and HOTP entries; the reducer writes its list to storage.  *)
(***************************************************************************)
\* generateOTPCode (reducer placeholder)
generateOTPCode(entry) == "123456"

\* case 'updateCodes', for one entry
updateCodesBumpsCounter(entry) ==
    [entry EXCEPT !.code = generateOTPCode(entry),
                  !.counter = IF entry.type = 2 THEN Num(entry.counter.v + 1) ELSE @]

updateCodesEntry(entry) == [entry EXCEPT !.code = generateOTPCode(entry)]

\* state.entries.findIndex(e => e.hash === hash), 0 for -1
findIndex(list, hash) ==
    IF \E i \in DOMAIN list : list[i].hash = hash
    THEN MinOf({i \in DOMAIN list : list[i].hash = hash})
    ELSE 0

Swap(list, i, j) ==
    [k \in DOMAIN list |-> IF k = i THEN list[j] ELSE IF k = j THEN list[i] ELSE list[k]]

\* newEntries.splice(fromIndex, 1); newEntries.splice(toIndex, 0, movedEntry)
Splice(list, fromIndex, toIndex) ==
    LET without == SubSeq(list, 1, fromIndex - 1) \o SubSeq(list, fromIndex + 1, Len(list))
    IN SubSeq(without, 1, toIndex - 1) \o <<list[fromIndex]>>
           \o SubSeq(without, toIndex, Len(without))

\* The entry card: what generateCode shows.  HOTP (type 2) is not generated.
generateCode(entry) ==
    IF entry.type = 2 THEN (IF entry.code = "" THEN "------" ELSE entry.code)
    ELSE "totp-code"

VaultEntry(hash) ==
    [hash : {hash}, secret : {"A"}, type : {1, 2}, counter : {Num(0), Num(5)},
     pinned : {FALSE}, code : {""}, issuer : {"Acme"}]

InitVault ==
    /\ AtRest
    /\ webdavConfig = NoConfig
    /\ \E list \in {<<a>> : a \in VaultEntry(1)}
                      \cup {<<a, b>> : a \in VaultEntry(1), b \in VaultEntry(2)} :
          pure = [op |-> "vault", state |-> list, loaded |-> list, shown |-> "",
                  steps |-> {}]

\* The reducer's new list goes to the state and to storage.
Reduce(list, step) ==
    /\ pure' = [pure EXCEPT !.state = list, !.steps = @ \cup {step}]
    /\ entries' = list
    /\ entriesLastModified' = clock
    /\ UNCHANGED <<lastSyncedTimestamp, webdavConfig, webdavSyncLogs, clock, hashSeed,
                   inv, runs>>

updateCodes ==
    /\ pure.op = "vault"
    /\ pure' = [pure EXCEPT !.state = [i \in DOMAIN @ |-> updateCodesEntry(@[i])],
                            !.steps = @ \cup {"updateCodes"}]
    /\ UNCHANGED <<entries, entriesLastModified, lastSyncedTimestamp, webdavConfig,
                   webdavSyncLogs, clock, hashSeed, inv, runs>>

pinEntry ==
    /\ pure.op = "vault"
    /\ \E hash \in Hashes :
          Reduce([i \in DOMAIN pure.state |->
                     IF pure.state[i].hash = hash
                     THEN [pure.state[i] EXCEPT !.pinned = ~@] ELSE pure.state[i]],
                 "pinEntry")

updateEntry ==
    /\ pure.op = "vault"
    /\ \E hash \in Hashes, issuer \in {"Acme", "Other"} :
          Reduce([i \in DOMAIN pure.state |->
                     IF pure.state[i].hash = hash
                     THEN [pure.state[i] EXCEPT !.issuer = issuer] ELSE pure.state[i]],
                 "updateEntry")

moveEntryUp ==
    /\ pure.op = "vault"
    /\ \E hash \in Hashes :
          LET list == pure.state
              index == findIndex(list, hash)
              same == {i \in 1..(index - 1) : list[i].pinned = list[index].pinned}
          IN /\ index # 0
             /\ same # {}
             /\ Reduce(Swap(list, index, CHOOSE i \in same : \A j \in same : j <= i),
                       "moveEntryUp")

moveEntryDown ==
    /\ pure.op = "vault"
    /\ \E hash \in Hashes :
          LET list == pure.state
              index == findIndex(list, hash)
              same == {i \in (index + 1)..Len(list) : list[i].pinned = list[index].pinned}
          IN /\ index # 0
             /\ same # {}
             /\ Reduce(Swap(list, index, MinOf(same)), "moveEntryDown")

reorderEntry ==
    /\ pure.op = "vault"
    /\ \E fromHash \in Hashes, toHash \in Hashes :
          LET list == pure.state
              fromIndex == findIndex(list, fromHash)
              toIndex == findIndex(list, toHash)
          IN /\ fromHash # toHash
             /\ fromIndex # 0
             /\ toIndex # 0
             /\ list[fromIndex].pinned = list[toIndex].pinned
             /\ Reduce(Splice(list, fromIndex, toIndex), "reorderEntry")

\* The entry card's per-second effect for one entry.
refreshCode ==
    /\ pure.op = "vault"
    /\ \E i \in DOMAIN pure.state :
          pure' = [pure EXCEPT !.shown = generateCode(pure.state[i]),
                               !.steps = @ \cup {"generateCode"}]
    /\ UNCHANGED <<entries, entriesLastModified, lastSyncedTimestamp, webdavConfig,
                   webdavSyncLogs, clock, hashSeed, inv, runs>>

\* The startup sync's download merge, dispatched as setEntries.
mergeDownloaded ==
    /\ pure.op = "vault"
    /\ "merge" \notin pure.steps
    /\ \E hash \in Hashes :
          LET accounts == <<[hash |-> hash, secret |-> "A", type |-> 2,
                             counter |-> Num(9), pinned |-> FALSE, code |-> "",
                             issuer |-> "Acme"]>>
              m == DownloadMerge(pure.state, accounts, hashSeed)
          IN /\ pure' = [pure EXCEPT !.state = m.merged, !.steps = @ \cup {"merge"}]
             /\ entries' = m.merged
             /\ entriesLastModified' = clock
             /\ lastSyncedTimestamp' = clock
    /\ UNCHANGED <<webdavConfig, webdavSyncLogs, clock, hashSeed, inv, runs>>

NextVault ==
    \/ updateCodes
    \/ pinEntry
    \/ updateEntry
    \/ moveEntryUp
    \/ moveEntryDown
    \/ reorderEntry
    \/ refreshCode
    \/ mergeDownloaded

SpecVault == InitVault /\ [][NextVault]_vars

CounterAtLoad(hash) ==
    pure.loaded[CHOOSE i \in DOMAIN pure.loaded : pure.loaded[i].hash = hash].counter

CountersKept(list) ==
    \A i \in DOMAIN list :
        (\E j \in DOMAIN pure.loaded : pure.loaded[j].hash = list[i].hash)
            => list[i].counter = CounterAtLoad(list[i].hash)

\* C17: whatever updateCodes, the entry card's code refresh, pin, edit, move,
\* reorder and merge steps were taken, every loaded entry still has the
\* counter it was loaded with, in the popup's list and in storage.
C17_CounterUnchanged ==
    pure.op = "vault" =>
        /\ CountersKept(pure.state)
        /\ CountersKept(entries)
        /\ \A i \in DOMAIN pure.loaded :
               \E j \in DOMAIN pure.state : pure.state[j].hash = pure.loaded[i].hash

C17_Witness ==
    /\ pure.op = "vault"
    /\ {"updateCodes", "generateCode", "pinEntry", "updateEntry", "merge"}
           \subseteq pure.steps
    /\ pure.steps \cap {"moveEntryUp", "moveEntryDown", "reorderEntry"} # {}
    /\ entries = pure.state
    /\ \E i \in DOMAIN entries :
          /\ entries[i].type = 2
          /\ entries[i].hash = pure.loaded[1].hash
          /\ entries[i].counter = Num(5)
          /\ entries[i].code = "123456"
          /\ entries[i].issuer = "Other"

(***************************************************************************)
(* SpecCipher: models/encryption.ts over a symbolic AES-CBC.  A key is the *)
(* pair PBKDF2 derives it from; a ciphertext names the data, key and IV it *)
(* was made with; decrypting it with another key or IV, or decrypting      *)
(* bytes that are no ciphertext, gives bytes that are not valid UTF-8 (the *)
(* string conversion throws), or that unpad to nothing, or to some text.   *)
(* WordArray.random draws the next unused number.                          *)
(***************************************************************************)
Payloads == {"", "p"}
Passphrases == {"", "pw1", "pw2"}

\* CryptoJS.PBKDF2(password, salt, ...)
PBKDF2(password, salt) == <<password, salt>>

\* CryptoJS.AES.encrypt(data, key, {iv}).ciphertext
AESEncrypt(data, key, iv) == [data |-> data, key |-> key, iv |-> iv]

NoCiphertext == AESEncrypt("junk", PBKDF2("none", 0), 0)

\* CryptoJS.AES.decrypt(...).toString(CryptoJS.enc.Utf8): the outcomes.
AESDecryptToString(ciphertext, key, iv) ==
    IF ciphertext.key = key /\ ciphertext.iv = iv /\ ciphertext # NoCiphertext
    THEN {[threw |-> FALSE, text |-> ciphertext.data]}
    ELSE {[threw |-> TRUE, text |-> ""],
          [threw |-> FALSE, text |-> ""],
          [threw |-> FALSE, text |-> "garbage"]}

\* A string handed to decrypt: `${salt}:${iv}:${ciphertext}`, or another shape.
Blob(shape, salt, iv, ciphertext, text) ==
    [shape |-> shape, salt |-> salt, iv |-> iv, ciphertext |-> ciphertext, text |-> text]

Joined(salt, iv, ciphertext) == Blob("three", salt, iv, ciphertext, "")
Plain(text) == Blob(IF text = "" THEN "empty" ELSE "nocolon", 0, 0, NoCiphertext, text)

MalformedBlobs ==
    {Plain(""), Plain("p"), Blob("two", 0, 0, NoCiphertext, ""),
     Joined(0, 0, NoCiphertext)}

Null == [null |-> TRUE, text |-> ""]
Str(text) == [null |-> FALSE, text |-> text]

\* SecureHash.encryptData with random() giving r and r + 1
encryptData(data, masterPassword, r) ==
    Joined(r, r + 1, AESEncrypt(data, PBKDF2(masterPassword, r), r + 1))

\* SecureHash.decryptData, for one outcome of the AES decryption
decryptData(encryptedData, masterPassword, outcome) ==
    IF encryptedData.shape # "three" THEN Null
    ELSE IF outcome.threw THEN Null
    ELSE Str(outcome.text)

\* Encryption.getEncryptedString with random() giving r
getEncryptedString(this, data, r) ==
    IF this.password = "" THEN Plain(data)
    ELSE Joined(this.salt, r, AESEncrypt(data, PBKDF2(this.password, this.salt), r))

\* Encryption.decryptString, for one outcome of the AES decryption
decryptString(this, encryptedData, outcome) ==
    IF this.password = "" \/ encryptedData.shape = "empty" THEN Null
    ELSE IF outcome.threw THEN Null
    ELSE Str(outcome.text)

\* The outcomes of the AES decryption a decrypt call runs into.
Outcomes(encryptedData, password) ==
    IF encryptedData.shape = "three"
    THEN AESDecryptToString(encryptedData.ciphertext,
                            PBKDF2(password, encryptedData.salt), encryptedData.iv)
    ELSE AESDecryptToString(NoCiphertext, PBKDF2(password, 0), 0)

NoCall == [via |-> "none", password |-> "", data |-> "", out |-> Plain("")]
NoDecrypt ==
    [via |-> "none", password |-> "", blob |-> Plain(""), made |-> NoCall,
     result |-> Null]

InitCipher ==
    /\ AtRest
    /\ webdavConfig = NoConfig
    /\ \E hash \in Passphrases :
          pure = [op |-> "cipher",
                  this |-> [password |-> hash, salt |-> 1],
                  random |-> 2,
                  calls |-> <<>>,
                  dec |-> NoDecrypt]

CipherUnchanged ==
    UNCHANGED <<entries, entriesLastModified, lastSyncedTimestamp, webdavConfig,
                webdavSyncLogs, clock, hashSeed, inv, runs>>

CallEncryptData ==
    /\ pure.op = "cipher"
    /\ Len(pure.calls) < MaxCalls
    /\ \E data \in Payloads, pw \in Passphrases :
          pure' = [pure EXCEPT !.random = @ + 2,
                               !.calls = Append(@, [via |-> "SecureHash", password |-> pw,
                                                    data |-> data,
                                                    out |-> encryptData(data, pw,
                                                                        pure.random)])]
    /\ CipherUnchanged

CallGetEncryptedString ==
    /\ pure.op = "cipher"
    /\ Len(pure.calls) < MaxCalls
    /\ \E data \in Payloads :
          pure' = [pure EXCEPT !.random = @ + 1,
                               !.calls = Append(@, [via |-> "Encryption",
                                                    password |-> pure.this.password,
                                                    data |-> data,
                                                    out |-> getEncryptedString(
                                                                pure.this, data,
                                                                pure.random)])]
    /\ CipherUnchanged

updateEncryptionPassword ==
    /\ pure.op = "cipher"
    /\ \E password \in Passphrases :
          /\ password # pure.this.password
          /\ pure' = [pure EXCEPT !.this.password = password]
    /\ CipherUnchanged

CallDecryptData ==
    /\ pure.op = "cipher"
    /\ \E pw \in Passphrases,
          made \in {pure.calls[i] : i \in DOMAIN pure.calls}
                      \cup {[NoCall EXCEPT !.out = b] : b \in MalformedBlobs} :
          \E outcome \in Outcomes(made.out, pw) :
              pure' = [pure EXCEPT !.dec = [via |-> "SecureHash", password |-> pw,
                                            blob |-> made.out, made |-> made,
                                            result |-> decryptData(made.out, pw, outcome)]]
    /\ CipherUnchanged

CallDecryptString ==
    /\ pure.op = "cipher"
    /\ \E made \in {pure.calls[i] : i \in DOMAIN pure.calls}
                      \cup {[NoCall EXCEPT !.out = b] : b \in MalformedBlobs} :
          \E outcome \in Outcomes(made.out, pure.this.password) :
              pure' = [pure EXCEPT !.dec = [via |-> "Encryption",
                                            password |-> pure.this.password,
                                            blob |-> made.out, made |-> made,
                                            result |-> decryptString(pure.this, made.out,
                                                                     outcome)]]
    /\ CipherUnchanged

NextCipher ==
    \/ CallEncryptData
    \/ CallGetEncryptedString
    \/ updateEncryptionPassword
    \/ CallDecryptData
    \/ CallDecryptString

SpecCipher == InitCipher /\ [][NextCipher]_vars

\* C18: decrypt of a malformed blob, or of a blob encrypted under another
\* passphrase, returns null.
C18_WrongKeyIsNull ==
    (pure.op = "cipher" /\ pure.dec.via # "none"
        /\ (pure.dec.made.via = "none" \/ pure.dec.made.password # pure.dec.password))
        => pure.dec.result = Null

\* C19: decrypt of what encrypt returned for payload p under passphrase pw,
\* with the same passphrase, returns p.
C19_CipherRoundTrip ==
    (pure.op = "cipher" /\ pure.dec.via # "none" /\ pure.dec.made.via = pure.dec.via
        /\ pure.dec.made.password = pure.dec.password)
        => pure.dec.result = Str(pure.dec.made.data)

\* C20: no two encrypt calls give output with the same salt or the same IV.
C20_FreshSaltAndIv ==
    pure.op = "cipher" =>
        \A i, j \in DOMAIN pure.calls :
            (i # j /\ pure.calls[i].out.shape = "three" /\ pure.calls[j].out.shape = "three")
                => /\ pure.calls[i].out.salt # pure.calls[j].out.salt
                   /\ pure.calls[i].out.iv # pure.calls[j].out.iv

(***************************************************************************)
(* C21, C22, C24, C29: the requests of one resolver invocation.            *)
(***************************************************************************)
\* C21: every request that carries account entries carries them encrypted.
C21_EntriesSentEncrypted ==
    \A h \in Handlers :
        \A i \in DOMAIN inv[h].sent :
            inv[h].sent[i].accounts # <<>> => inv[h].sent[i].encrypted

\* The handlers the user starts by hand; the alarm listener and the popup's
\* start-up effect are not among them.
UserStarted == Triggers \ {"alarm", "startup"}

\* C22: a request is sent only by a handler the user started: the alarm
\* listener and the popup start-up send none.
C22_OnlyUserInitiated ==
    \A h \in Handlers : h \notin UserStarted => inv[h].sent = <<>>

(***************************************************************************)
(* SpecRetention: WebDAV.listBackups on a bounded listing, with the        *)
(* retention setting of the form.  Times are in days.                      *)
(***************************************************************************)
RetentionChoices == {-1, 1, 2}

\* a.localeCompare(b) on the names of this model, by the token after the prefix
NameRank(name) == IF Includes(name, " ") THEN 1 ELSE IF Includes(name, "-d1") THEN 2 ELSE 3
localeCompare(a, b) == NameRank(a) - NameRank(b)

\* new Date(lastModified).toLocaleString(), 'Unknown' for no date
toLocaleString(lastModified) ==
    IF lastModified.txt = "none" THEN [text |-> "Unknown", day |-> 0]
    ELSE IF lastModified.txt = "bad" THEN [text |-> "Invalid Date", day |-> 0]
    ELSE [text |-> "date", day |-> lastModified.ms]

RECURSIVE CollectFiles(_, _, _)
CollectFiles(responses, i, files) ==
    IF i > Len(responses) THEN files
    ELSE CollectFiles(responses, i + 1,
                      IF IsBackupHref(responses[i].href)
                      THEN Append(files,
                                  [name |-> decodeURIComponent(LastSegment(responses[i].href)),
                                   date |-> toLocaleString(responses[i].lastMod)])
                      ELSE files)

\* files.sort((a, b) => b.name.localeCompare(a.name)), a stable sort
RECURSIVE InsertFile(_, _)
InsertFile(sorted, f) ==
    IF sorted = <<>> THEN <<f>>
    ELSE IF localeCompare(f.name, sorted[Len(sorted)].name) <= 0
    THEN Append(sorted, f)
    ELSE Append(InsertFile(SubSeq(sorted, 1, Len(sorted) - 1), f), sorted[Len(sorted)])

RECURSIVE SortFiles(_, _, _)
SortFiles(files, i, sorted) ==
    IF i > Len(files) THEN sorted
    ELSE SortFiles(files, i + 1, InsertFile(sorted, files[i]))

\* WebDAV.listBackups for a PROPFIND answered with `responses`
listBackups(responses) == SortFiles(CollectFiles(responses, 1, <<>>), 1, <<>>)

InitRetention ==
    /\ AtRest
    /\ webdavConfig = NoConfig
    /\ pure \in [op : {"restore"}, listing : SeqsUpTo(Resources, MaxListing),
                 ok : BOOLEAN, retentionDays : RetentionChoices, today : {MaxClock},
                 sent : {<<>>}, backupFiles : {<<>>}, showRestoreList : {FALSE}]

ListForRestore ==
    /\ pure.op = "restore"
    /\ pure' = [pure EXCEPT !.op = "listed",
                            !.sent = <<Request("PROPFIND", <<>>, <<>>)>>,
                            !.backupFiles = IF pure.ok THEN listBackups(pure.listing) ELSE @,
                            !.showRestoreList = pure.ok]
    /\ UNCHANGED <<entries, entriesLastModified, lastSyncedTimestamp, webdavConfig,
                   webdavSyncLogs, clock, hashSeed, inv, runs>>

NextRetention == ListForRestore

SpecRetention == InitRetention /\ [][NextRetention]_vars

\* C23: with retentionDays = d other than -1, every backup listed for a
\* restore was modified within the last d days, and no request deletes a
\* remote file.
C23_RetentionFilter ==
    pure.op = "listed" =>
        /\ pure.retentionDays # -1 =>
              \A i \in DOMAIN pure.backupFiles :
                  /\ pure.backupFiles[i].date.text = "date"
                  /\ pure.today - pure.backupFiles[i].date.day <= pure.retentionDays
        /\ \A i \in DOMAIN pure.sent : pure.sent[i].method # "DELETE"

\* ---------------------------------------------------------------------------
\* Order of the steps of one alarm invocation.

\* The operation name of the log entry that records the outcome of a decision:
\* BACKUP_SUCCESS after a download or an upload, the AUTO_BACKUP_TRIGGER entry
\* that says the backup was skipped for NoOp.
OutcomeOperation(action) ==
    IF action = "NoOp" THEN "AUTO_BACKUP_TRIGGER" ELSE "BACKUP_SUCCESS"

\* C24: within one invocation of the alarm handler the log entry recording the
\* outcome is written before lastSyncedTimestamp is advanced, for Download,
\* Upload and NoOp alike: every step of the invocation that changes
\* lastSyncedTimestamp finds that entry among the entries the invocation has
\* appended so far.
C24_LogBeforeAdvance ==
    [][(inv["alarm"].pc # "idle" /\ lastSyncedTimestamp' # lastSyncedTimestamp)
          => \E i \in (inv["alarm"].nlogs + 1)..Len(webdavSyncLogs) :
                webdavSyncLogs[i].operation = OutcomeOperation(inv["alarm"].action)]_vars

\* ---------------------------------------------------------------------------
\* A remote listing that failed.

\* C29: in an invocation whose PROPFIND request returned a non-success status
\* no PUT is sent, lastSyncedTimestamp keeps the value it had when the
\* invocation started, and neither Upload nor NoOp is chosen.
C29_FailedListingNotEmpty ==
    \A h \in Handlers :
        (inv[h].pc # "idle" /\ inv[h].failure = "propfind-status")
            => /\ \A i \in 1..Len(inv[h].sent) : inv[h].sent[i].method # "PUT"
               /\ lastSyncedTimestamp = inv[h].pre.lastSyncedTimestamp
               /\ inv[h].action \notin {"Upload", "NoOp"}

\* ---------------------------------------------------------------------------
\* entriesLastModified as the time of the last change of the vault.

\* C28: every step that changes the persisted entries also leaves
\* entriesLastModified at a value not smaller than the time of the change.
C28_MutationStampsTime ==
    [][entries' # entries => entriesLastModified' >= clock]_vars

(***************************************************************************)
(* SpecAppend: log appends in flight at the same time.  Each append is a   *)
(* storage read, a push and shift on the list read, and a storage write;   *)
(* the read and the write are separate steps, and steps of two calls       *)
(* interleave.  Each call carries its own message (the number of the call).*)
(***************************************************************************)
MaxLogCalls == 3

Callers == {1, 2}

NoAppend == [pc |-> "idle", helper |-> "none", entry |-> LogEntry(0, "INFO", "none", 0),
             logs |-> <<>>]

InitAppend ==
    /\ AtRest
    /\ webdavConfig = NoConfig
    /\ pure = [op |-> "appends", call |-> [c \in Callers |-> NoAppend],
               calls |-> 0, completed |-> {}]

\* sync-logger.ts addSyncLog up to its first await: the entry is built.
addSyncLogCall(c) ==
    /\ pure.op = "appends"
    /\ pure.call[c].pc = "idle"
    /\ pure.calls < MaxLogCalls
    /\ pure' = [pure EXCEPT
                  !.call[c] = [pc |-> "get", helper |-> "addSyncLog",
                               entry |-> LogEntry(clock, "INFO", "AUTO_BACKUP_TRIGGER",
                                                  pure.calls + 1),
                               logs |-> <<>>],
                  !.calls = @ + 1]
    /\ UNCHANGED <<entries, entriesLastModified, lastSyncedTimestamp, webdavConfig,
                   webdavSyncLogs, clock, hashSeed, inv, runs>>

\* background.ts addLog (and the catch block) up to the first await.
addLogCall(c) ==
    /\ pure.op = "appends"
    /\ pure.call[c].pc = "idle"
    /\ pure.calls < MaxLogCalls
    /\ pure' = [pure EXCEPT
                  !.call[c] = [pc |-> "get", helper |-> "addLog",
                               entry |-> LogEntry(clock, "ERROR", "BACKUP_FAILED",
                                                  pure.calls + 1),
                               logs |-> <<>>],
                  !.calls = @ + 1]
    /\ UNCHANGED <<entries, entriesLastModified, lastSyncedTimestamp, webdavConfig,
                   webdavSyncLogs, clock, hashSeed, inv, runs>>

\* await chrome.storage.local.get(['webdavSyncLogs']) resolves; the push and
\* the shift run on the list it returned.
appendGet(c) ==
    /\ pure.op = "appends"
    /\ pure.call[c].pc = "get"
    /\ pure' = [pure EXCEPT
                  !.call[c].logs =
                      IF pure.call[c].helper = "addSyncLog"
                      THEN PushSyncLog(webdavSyncLogs, pure.call[c].entry)
                      ELSE PushLog(webdavSyncLogs, pure.call[c].entry),
                  !.call[c].pc = "set"]
    /\ UNCHANGED <<entries, entriesLastModified, lastSyncedTimestamp, webdavConfig,
                   webdavSyncLogs, clock, hashSeed, inv, runs>>

\* await chrome.storage.local.set({ webdavSyncLogs: logs }) and the return.
appendSet(c) ==
    /\ pure.op = "appends"
    /\ pure.call[c].pc = "set"
    /\ webdavSyncLogs' = pure.call[c].logs
    /\ pure' = [pure EXCEPT !.call[c] = NoAppend,
                            !.completed = @ \cup {pure.call[c].entry.message}]
    /\ UNCHANGED <<entries, entriesLastModified, lastSyncedTimestamp, webdavConfig,
                   clock, hashSeed, inv, runs>>

\* clearSyncLogs, at any moment.
clearWhileAppending ==
    /\ pure.op = "appends"
    /\ webdavSyncLogs # <<>>
    /\ webdavSyncLogs' = <<>>
    /\ pure' = [pure EXCEPT !.completed = {}]
    /\ UNCHANGED <<entries, entriesLastModified, lastSyncedTimestamp, webdavConfig,
                   clock, hashSeed, inv, runs>>

NextAppend ==
    \/ \E c \in Callers : addSyncLogCall(c)
    \/ \E c \in Callers : addLogCall(c)
    \/ \E c \in Callers : appendGet(c)
    \/ \E c \in Callers : appendSet(c)
    \/ clearWhileAppending

SpecAppend == InitAppend /\ [][NextAppend]_vars

\* C30: every entry whose append has completed since the last clear is in
\* the stored log, unless the log is at its cap of 100 entries (the only case
\* in which an append evicts).
C30_AppendsKept ==
    pure.op = "appends" =>
        \A m \in pure.completed :
            \/ \E i \in DOMAIN webdavSyncLogs : webdavSyncLogs[i].message = m
            \/ Len(webdavSyncLogs) >= MAX_LOG_ENTRIES

(***************************************************************************)
(* SpecOverlap: the alarm invocation and the startup invocation of the     *)
(* resolver in flight at the same time, and the other writers of the vault *)
(* acting meanwhile.  Each action is one stretch of a handler between two  *)
(* awaits; a network round trip takes one unit of time.  The server keeps  *)
(* its latest backup: the time it was written and the accounts in it.      *)
(***************************************************************************)
NoRemote == [found |-> FALSE, timestamp |-> 0, accounts |-> <<>>]

NoRun ==
    [pc |-> "idle", entries |-> <<>>, localTimestamp |-> 0, remoteTimestamp |-> Num(0),
     action |-> "none", merged |-> <<>>]

NoChange == [kind |-> "none", hash |-> NoHash, during |-> {}]

\* background.ts: const merged = [...entries]; the list the payload is merged
\* into is the snapshot the invocation read at its start.
MergeBaseStored(snapshot, stored) == stored

MergeBase(snapshot, stored) == snapshot

\* The invocations that have read their snapshot and not yet written a merge.
BeforeWrite == {h \in Handlers : pure.run[h].pc \in {"propfind", "trigger", "get", "set"}}

ActionPc(a) ==
    CASE a = "Download" -> "get" [] a = "Upload" -> "put" [] OTHER -> "noop"

InitOverlap ==
    /\ entries \in {<<>>, <<[hash |-> 1, secret |-> "A"]>>}
    /\ entriesLastModified \in {0, 1}
    /\ lastSyncedTimestamp = 0
    /\ webdavSyncLogs = <<>>
    /\ clock = 1
    /\ hashSeed = 0
    /\ inv = [h \in Handlers |-> IdleInv]
    /\ runs = 0
    /\ webdavConfig = [serverUrl |-> TRUE, username |-> TRUE, password |-> TRUE,
                       syncOnStartup |-> TRUE]
    /\ \E remote \in {NoRemote} \cup
                     {[found |-> TRUE, timestamp |-> ts, accounts |-> a] :
                          ts \in {1, 2}, a \in BodyAccounts} :
          pure = [op |-> "overlap", remote |-> remote, local |-> entries,
                  payload |-> remote.accounts,
                  run |-> [h \in Handlers |-> NoRun], change |-> NoChange]

\* get(['entries', 'entriesLastModified' ...]): the snapshot.  The alarm
\* handler returns when the list is empty.
syncGetEntries(h) ==
    /\ pure.op = "overlap"
    /\ pure.run[h].pc = "idle"
    /\ pure' = [pure EXCEPT
                  !.run[h] = [@ EXCEPT !.entries = entries,
                                       !.localTimestamp = entriesLastModified,
                                       !.pc = IF h = "alarm" /\ Len(entries) = 0
                                              THEN "done" ELSE "propfind"]]
    /\ UNCHANGED <<entries, entriesLastModified, lastSyncedTimestamp, webdavConfig,
                   webdavSyncLogs, clock, hashSeed, inv, runs>>

\* PROPFIND, the scan of the listing and the decision.
syncPropfind(h) ==
    /\ pure.op = "overlap"
    /\ pure.run[h].pc = "propfind"
    /\ LET me == pure.run[h]
           ts == IF pure.remote.found THEN Num(pure.remote.timestamp) ELSE Num(0)
           name == IF pure.remote.found THEN UploadName ELSE <<>>
           a == IF h = "alarm"
                THEN AlarmDecision(me.localTimestamp, ts, name)
                ELSE StartupDecision(me.localTimestamp,
                                     [found |-> pure.remote.found, name |-> name,
                                      timestamp |-> ts],
                                     me.entries)
       IN pure' = [pure EXCEPT
                     !.run[h] = [@ EXCEPT !.remoteTimestamp = ts, !.action = a,
                                          !.pc = IF h = "alarm" THEN "trigger"
                                                 ELSE ActionPc(a)]]
    /\ clock' = clock + 1
    /\ UNCHANGED <<entries, entriesLastModified, lastSyncedTimestamp, webdavConfig,
                   webdavSyncLogs, hashSeed, inv, runs>>

\* The alarm handler's AUTO_BACKUP_TRIGGER entry, before it acts.
syncTrigger(h) ==
    /\ pure.op = "overlap"
    /\ pure.run[h].pc = "trigger"
    /\ webdavSyncLogs' =
          PushLog(webdavSyncLogs, LogEntry(clock, "INFO", "AUTO_BACKUP_TRIGGER", 0))
    /\ pure' = [pure EXCEPT !.run[h].pc = ActionPc(pure.run[h].action)]
    /\ UNCHANGED <<entries, entriesLastModified, lastSyncedTimestamp, webdavConfig,
                   clock, hashSeed, inv, runs>>

\* GET of the latest backup, json() and the merge loop.
syncDownload(h) ==
    /\ pure.op = "overlap"
    /\ pure.run[h].pc = "get"
    /\ LET m == DownloadMerge(MergeBase(pure.run[h].entries, entries),
                              pure.remote.accounts, hashSeed)
       IN /\ pure' = [pure EXCEPT !.run[h].merged = m.merged, !.run[h].pc = "set"]
          /\ hashSeed' = m.seed
    /\ clock' = clock + 1
    /\ UNCHANGED <<entries, entriesLastModified, lastSyncedTimestamp, webdavConfig,
                   webdavSyncLogs, inv, runs>>

\* set({ entries: merged, entriesLastModified: Date.now(),
\*       lastSyncedTimestamp: Date.now() })
syncSet(h) ==
    /\ pure.op = "overlap"
    /\ pure.run[h].pc = "set"
    /\ entries' = pure.run[h].merged
    /\ entriesLastModified' = clock
    /\ lastSyncedTimestamp' = clock
    /\ pure' = [pure EXCEPT !.run[h].pc = IF h = "alarm" THEN "log" ELSE "done"]
    /\ UNCHANGED <<webdavConfig, webdavSyncLogs, clock, hashSeed, inv, runs>>

\* PUT of the snapshot: the server's latest backup is now this one.
syncUpload(h) ==
    /\ pure.op = "overlap"
    /\ pure.run[h].pc = "put"
    /\ pure' = [pure EXCEPT
                  !.remote = [found |-> TRUE, timestamp |-> clock + 1,
                              accounts |-> pure.run[h].entries],
                  !.run[h].pc = "setSynced"]
    /\ clock' = clock + 1
    /\ UNCHANGED <<entries, entriesLastModified, lastSyncedTimestamp, webdavConfig,
                   webdavSyncLogs, hashSeed, inv, runs>>

\* set({ lastSyncedTimestamp: Date.now() }) after a successful PUT.
syncSetSynced(h) ==
    /\ pure.op = "overlap"
    /\ pure.run[h].pc = "setSynced"
    /\ lastSyncedTimestamp' = clock
    /\ pure' = [pure EXCEPT !.run[h].pc = IF h = "alarm" THEN "log" ELSE "done"]
    /\ UNCHANGED <<entries, entriesLastModified, webdavConfig, webdavSyncLogs, clock,
                   hashSeed, inv, runs>>

\* Already up to date: set({ lastSyncedTimestamp: Date.now() }).
syncNoOp(h) ==
    /\ pure.op = "overlap"
    /\ pure.run[h].pc = "noop"
    /\ lastSyncedTimestamp' = clock
    /\ pure' = [pure EXCEPT !.run[h].pc = "done"]
    /\ UNCHANGED <<entries, entriesLastModified, webdavConfig, webdavSyncLogs, clock,
                   hashSeed, inv, runs>>

\* The alarm handler's BACKUP_SUCCESS entry.
syncLog(h) ==
    /\ pure.op = "overlap"
    /\ pure.run[h].pc = "log"
    /\ webdavSyncLogs' =
          PushLog(webdavSyncLogs, LogEntry(clock, "INFO", "BACKUP_SUCCESS", 0))
    /\ pure' = [pure EXCEPT !.run[h].pc = "done"]
    /\ UNCHANGED <<entries, entriesLastModified, lastSyncedTimestamp, webdavConfig,
                   clock, hashSeed, inv, runs>>

\* background.ts 'saveQRAccount' meanwhile: the entry is pushed and
\* set({ entries }) alone is written.
saveQRAccountMeanwhile ==
    /\ pure.op = "overlap"
    /\ pure.change.kind = "none"
    /\ \E secret \in Secrets :
          /\ \A k \in DOMAIN entries : entries[k].secret # secret
          /\ entries' = Append(entries, [hash |-> generateHash(hashSeed), secret |-> secret])
    /\ hashSeed' = hashSeed + 1
    /\ pure' = [pure EXCEPT !.change = [kind |-> "added", hash |-> generateHash(hashSeed),
                                        during |-> BeforeWrite]]
    /\ UNCHANGED <<entriesLastModified, lastSyncedTimestamp, webdavConfig,
                   webdavSyncLogs, clock, inv, runs>>

\* accountsReducer 'deleteCode' meanwhile: the filtered list and
\* entriesLastModified are saved.
deleteCodeMeanwhile ==
    /\ pure.op = "overlap"
    /\ pure.change.kind = "none"
    /\ \E k \in DOMAIN entries :
          /\ entries[k].hash # NoHash
          /\ entries' = SelectSeq(entries, LAMBDA e : e.hash # entries[k].hash)
          /\ pure' = [pure EXCEPT !.change = [kind |-> "removed", hash |-> entries[k].hash,
                                              during |-> BeforeWrite]]
    /\ entriesLastModified' = clock
    /\ UNCHANGED <<lastSyncedTimestamp, webdavConfig, webdavSyncLogs, clock, hashSeed,
                   inv, runs>>

NextOverlap ==
    \/ \E h \in Handlers : syncGetEntries(h)
    \/ \E h \in Handlers : syncPropfind(h)
    \/ \E h \in Handlers : syncTrigger(h)
    \/ \E h \in Handlers : syncDownload(h)
    \/ \E h \in Handlers : syncSet(h)
    \/ \E h \in Handlers : syncUpload(h)
    \/ \E h \in Handlers : syncSetSynced(h)
    \/ \E h \in Handlers : syncNoOp(h)
    \/ \E h \in Handlers : syncLog(h)
    \/ saveQRAccountMeanwhile
    \/ deleteCodeMeanwhile

SpecOverlap == InitOverlap /\ [][NextOverlap]_vars

\* Both invocations have ended, both chose Download on the same
\* localTimestamp / remoteTimestamp, and no other handler wrote the vault.
BothDownloaded ==
    /\ pure.op = "overlap"
    /\ \A h \in Handlers : pure.run[h].pc = "done" /\ pure.run[h].action = "Download"
    /\ pure.run["alarm"].localTimestamp = pure.run["startup"].localTimestamp
    /\ pure.run["alarm"].remoteTimestamp = pure.run["startup"].remoteTimestamp
    /\ pure.change.kind = "none"

\* C25: when two overlapping invocations that saw the same snapshot both
\* chose Download, the stored list at the end, whatever the interleaving, is
\* what one Download produces from the list at the start: the local entries
\* in order, then each new remote entry once (an id-less one under a fresh
\* id); nothing duplicated, nothing lost.
C25_OverlappingDownloads ==
    BothDownloaded => MergeShape(pure.local, pure.payload, entries)

C25_Witness ==
    /\ BothDownloaded
    /\ \E i \in DOMAIN pure.payload : pure.payload[i].hash = NoHash
    /\ Len(entries) > Len(pure.local)
    /\ pure.run["alarm"].merged # pure.run["startup"].merged

\* C26: an entry that another handler added to, or removed from, the vault
\* between an invocation's snapshot read and its merged write is still added,
\* or still removed, in storage after that write (a removed entry may come
\* back only as an entry of the downloaded backup).
C26_LocalMutationKept ==
    pure.op = "overlap" =>
        \A h \in pure.change.during :
            (pure.run[h].pc \in {"log", "done"} /\ pure.run[h].action = "Download")
                => /\ pure.change.kind = "added"
                        => \E k \in DOMAIN entries : entries[k].hash = pure.change.hash
                   /\ (pure.change.kind = "removed"
                         /\ pure.change.hash \notin HashesOf(pure.payload))
                        => \A k \in DOMAIN entries : entries[k].hash # pure.change.hash

(***************************************************************************)
(* SpecQuiesce: invocation after invocation of the resolver with no local  *)
(* mutation and no other client in between.  Each action is one whole,     *)
(* successful invocation.  The server stamps an uploaded backup with the   *)
(* time of the PUT.  The resolver only compares the stored times, so after *)
(* each invocation they are renumbered by their order (0 stays 0) and the  *)
(* clock is set just after the latest of them.                             *)
(***************************************************************************)
Renumber(time, stored) ==
    IF time = 0 THEN 0 ELSE Cardinality({x \in stored : x <= time})

InitQuiesce ==
    /\ entries \in {<<>>, <<[hash |-> 1, secret |-> "A"]>>,
                    <<[hash |-> 1, secret |-> "A"], [hash |-> 2, secret |-> "B"]>>}
    /\ entriesLastModified \in 0..2
    /\ lastSyncedTimestamp \in 0..2
    /\ webdavSyncLogs = <<>>
    /\ clock = 3
    /\ hashSeed = 0
    /\ inv = [h \in Handlers |-> IdleInv]
    /\ runs = 0
    /\ webdavConfig = [serverUrl |-> TRUE, username |-> TRUE, password |-> TRUE,
                       syncOnStartup |-> TRUE]
    /\ \E remote \in {NoRemote} \cup
                     {[found |-> TRUE, timestamp |-> ts, accounts |-> a] :
                          ts \in {1, 2}, a \in BodyAccounts} :
          pure = [op |-> "quiesce", remote |-> remote, last |-> "none"]

\* One invocation of handler h, from its snapshot to its last storage write:
\* the action it chooses and what storage and the server hold after it.
SyncRun(h) ==
    LET ts == IF pure.remote.found THEN Num(pure.remote.timestamp) ELSE Num(0)
        name == IF pure.remote.found THEN UploadName ELSE <<>>
        a == IF h = "alarm"
             THEN IF Len(entries) = 0 THEN "none"
                  ELSE AlarmDecision(entriesLastModified, ts, name)
             ELSE StartupDecision(entriesLastModified,
                                  [found |-> pure.remote.found, name |-> name,
                                   timestamp |-> ts],
                                  entries)
        m == DownloadMerge(entries, pure.remote.accounts, hashSeed)
        local == IF a = "Download" THEN clock ELSE entriesLastModified
        synced == IF a \in {"Download", "Upload", "NoOp"} THEN clock
                  ELSE lastSyncedTimestamp
        remote == IF a = "Upload" THEN clock ELSE pure.remote.timestamp
        stored == {local, synced, remote} \ {0}
        trigger == LogEntry(clock, "INFO", "AUTO_BACKUP_TRIGGER", 0)
        success == LogEntry(clock, "INFO", "BACKUP_SUCCESS", 0)
    IN [action |-> a,
        entries |-> IF a = "Download" THEN m.merged ELSE entries,
        hashSeed |-> IF a = "Download" THEN m.seed ELSE hashSeed,
        entriesLastModified |-> Renumber(local, stored),
        lastSyncedTimestamp |-> Renumber(synced, stored),
        clock |-> Cardinality(stored) + 1,
        webdavSyncLogs |->
            IF h # "alarm" \/ a = "none" THEN webdavSyncLogs
            ELSE IF a = "NoOp" THEN PushLog(webdavSyncLogs, trigger)
            ELSE PushLog(PushLog(webdavSyncLogs, trigger), success),
        remote |-> IF a = "Upload"
                   THEN [found |-> TRUE, timestamp |-> Renumber(remote, stored),
                         accounts |-> entries]
                   ELSE [pure.remote EXCEPT !.timestamp = Renumber(remote, stored)]]

\* The periodic 'autoBackup' alarm fires.
alarmSync ==
    /\ pure.op = "quiesce"
    /\ LET after == SyncRun("alarm")
       IN /\ entries' = after.entries
          /\ hashSeed' = after.hashSeed
          /\ entriesLastModified' = after.entriesLastModified
          /\ lastSyncedTimestamp' = after.lastSyncedTimestamp
          /\ clock' = after.clock
          /\ webdavSyncLogs' = after.webdavSyncLogs
          /\ pure' = [pure EXCEPT !.remote = after.remote, !.last = after.action]
    /\ UNCHANGED <<webdavConfig, inv, runs>>

\* The popup is opened.
startupSync ==
    /\ pure.op = "quiesce"
    /\ LET after == SyncRun("startup")
       IN /\ entries' = after.entries
          /\ hashSeed' = after.hashSeed
          /\ entriesLastModified' = after.entriesLastModified
          /\ lastSyncedTimestamp' = after.lastSyncedTimestamp
          /\ clock' = after.clock
          /\ webdavSyncLogs' = after.webdavSyncLogs
          /\ pure' = [pure EXCEPT !.remote = after.remote, !.last = after.action]
    /\ UNCHANGED <<webdavConfig, inv, runs>>

NextQuiesce == alarmSync \/ startupSync

SpecQuiesce == InitQuiesce /\ [][NextQuiesce]_vars

\* chrome.alarms.create('autoBackup', { periodInMinutes }): the alarm keeps
\* firing; nothing makes the user open the popup again.
SpecQuiesceFair == SpecQuiesce /\ WF_vars(alarmSync)

\* C27: with no local mutation and no other client, from some invocation on
\* every invocation downloads nothing and uploads nothing.
C27_Quiescence ==
    <>[](pure.last \notin {"Download", "Upload"})
====
